---- MODULE Spec2Model ----
(***************************************************************************)
(* Model of the statistical experimentation engine of the A/B testing      *)
(* agent: metric aggregation and data-quality checks (metrics.py), effect  *)
(* sizes (effect_sizes.py), confidence intervals (confidence_intervals.py),*)
(* hypothesis tests (hypothesis_testing.py) and power analysis             *)
(* (power_analysis.py).                                                    *)
(*                                                                         *)
(* Every entry point of the engine is a pure function.  A behaviour of the *)
(* model is one call: the initial state holds the name of the function and *)
(* its arguments (pc = "call"), the action named after the function        *)
(* computes what its body computes and stores the outcome in ret           *)
(* (pc = "done").  An outcome is either a returned value                   *)
(* (ret.kind = "value") or a raised exception (ret.kind = "error").        *)
(*                                                                         *)
(* bootstrap_test is the one function with state of its own, the random    *)
(* generator it creates.  Concurrent calls of it are modelled as threads:  *)
(* threads holds, for each caller, its arguments, its position in the      *)
(* body and its local variables; build holds what the installed libraries  *)
(* compute (the output of the bit generator for each seed).                *)
(*                                                                         *)
(* Two kinds of behaviour are made of several calls.  A session of the     *)
(* metrics engine calls its functions one after another on the caller's    *)
(* events DataFrame, frame.  A session of an agent (agents/base.py) calls  *)
(* invoke, invoke_structured and clear_history on one agent: messages is   *)
(* its conversation history and sent the list of messages last handed to   *)
(* the language model.  log records the calls a session has finished.      *)
(*                                                                         *)
(* Numbers.  Probabilities, rates, alpha and confidence levels are         *)
(* integers in units of 1/10000 (so 0.05 is 500).  Statistics that the     *)
(* code keeps as floats are kept as exact fractions of integers; every     *)
(* comparison the code makes on them is made on the fractions.             *)
(***************************************************************************)
EXTENDS Integers, Sequences, FiniteSets, TLC

VARIABLES pc, op, args, ret, threads, build, frame, messages, sent, log

vars == <<pc, op, args, ret, threads, build, frame, messages, sent, log>>

\* The state before the called function has produced an outcome.
NoRet == [kind |-> "none"]

\* raise ValueError(msg)
Raise(msg) == [kind |-> "error", error |-> "ValueError", message |-> msg]

\* a value a function returns
PyValue(v) == [kind |-> "value", value |-> v]

\* 1.0 in the unit of probabilities (1/10000).
One == 100 * 100

Abs(x) == IF x < 0 THEN -x ELSE x

(***************************************************************************)
(* metrics.py : the event table                                            *)
(***************************************************************************)

\* A missing value (None / NaN) of user_id; real users are 1, 2, ...
NullUser == 0

\* A missing value (None / NaN) of variant_name.
NullVariant == "<NA>"

\* The columns validate_experiment_data requires by default, in its order.
DefaultRequiredColumns == <<"user_id", "variant_name", "event_type", "event_timestamp">>

EventTypes == {"exposure", "conversion"}

\* One row of the events DataFrame (the columns the engine reads).
Row(u, v, e) == [user_id |-> u, variant_name |-> v, event_type |-> e]

\* Series.unique(): the distinct values in order of first appearance
\* (a missing value is one of the values).
RECURSIVE Unique(_)
Unique(seq) ==
    IF seq = <<>> THEN <<>>
    ELSE LET rest == Unique(SubSeq(seq, 1, Len(seq) - 1))
             last == seq[Len(seq)]
         IN  IF \E i \in 1..Len(rest) : rest[i] = last THEN rest
             ELSE Append(rest, last)

\* the column user_col of a table, as a sequence
UserCol(rows) == [i \in 1..Len(rows) |-> rows[i].user_id]

\* set(array)
SetOf(seq) == {seq[i] : i \in 1..Len(seq)}

\* ConversionMetric(successes=..., total=..., rate=..., variant_name=...)
ConversionMetric(s, t, r, v) ==
    [kind |-> "value", successes |-> s, total |-> t, rate |-> r, variant_name |-> v]

\* aggregate_conversion_rate counting every converted user of the variant,
\* exposed or not.
aggregate_AllConverted(events, variant_name) ==
    LET variant_events == SelectSeq(events, LAMBDA r : r.variant_name = variant_name)
        exposed_users ==
            Unique(UserCol(SelectSeq(variant_events, LAMBDA r : r.event_type = "exposure")))
        total == Len(exposed_users)
        converted_users ==
            Unique(UserCol(SelectSeq(variant_events, LAMBDA r : r.event_type = "conversion")))
        successes == Len(converted_users)
        rate == IF total > 0 THEN <<successes, total>> ELSE <<0, 1>>
    IN  ConversionMetric(successes, total, rate, variant_name)

\* aggregate_conversion_rate(events, variant_name) with the default column
\* and event names.  rate is the fraction successes/total, 0.0 is <<0, 1>>.
aggregate_conversion_rate(events, variant_name) ==
    LET variant_events == SelectSeq(events, LAMBDA r : r.variant_name = variant_name)
        exposed_users ==
            Unique(UserCol(SelectSeq(variant_events, LAMBDA r : r.event_type = "exposure")))
        total == Len(exposed_users)
        converted_users ==
            Unique(UserCol(SelectSeq(variant_events, LAMBDA r : r.event_type = "conversion")))
        successes == Cardinality(SetOf(converted_users) \cap SetOf(exposed_users))
        rate == IF total > 0 THEN <<successes, total>> ELSE <<0, 1>>
    IN  ConversionMetric(successes, total, rate, variant_name)

(***************************************************************************)
(* metrics.py : sample ratio mismatch                                      *)
(***************************************************************************)

\* floor(10^6 * num / den) for num >= 0, den > 0, computed without leaving
\* 32 bits; quotients of ChiCap or more are reported as ChiCap.
ChiCap == 1000

RECURSIVE Gcd(_, _)
Gcd(a, b) == IF b = 0 THEN a ELSE Gcd(b, a % b)

FloorMicro(num, den) ==
    LET g  == Gcd(num, den)
        n  == num \div g
        d  == den \div g
        q  == n \div d
        r  == n % d
        r1 == (r * 1000) \div d
        r2 == (((r * 1000) % d) * 1000) \div d
    IN  IF q >= ChiCap THEN ChiCap * 1000000
        ELSE q * 1000000 + r1 * 1000 + r2

\* Upper quantiles of the chi-square distribution with one degree of
\* freedom: <<p, x>> says P(X > x / 10^6) = p / 10000.
ChiSquareQuantiles ==
    << <<5000,   454936>>, <<2000,  1642374>>, <<1000,  2705543>>,
       << 500,  3841458>>, << 200,  5411894>>, << 100,  6634896>>,
       <<  20,  9549535>>, <<  10, 10827566>>, <<   2, 13831083>>,
       <<   1, 15136705>> >>

\* scipy.stats.chi2.sf(x, 1) for x = xMicro / 10^6, in units of 1/10000 and
\* rounded down to the probabilities of ChiSquareQuantiles: 1.0 at x = 0,
\* otherwise the largest tabulated p with p <= sf(x), and 0 below the table.
\* Rounding down keeps p < alpha exact for every alpha of the table.
ChiSquareSF(xMicro) ==
    IF xMicro = 0 THEN One
    ELSE LET hits == {i \in 1..Len(ChiSquareQuantiles) : xMicro <= ChiSquareQuantiles[i][2]}
         IN  IF hits = {} THEN 0
             ELSE ChiSquareQuantiles[CHOOSE i \in hits : \A j \in hits : i <= j][1]

\* scipy.stats.chisquare(observed, expected) on two cells, the expected
\* counts being total * a / b and total * (b - a) / b for the ratio a / b:
\* the statistic sum((obs - exp)^2 / exp) in units of 10^-6 and its p-value.
chisquare(control_n, treatment_n, a, b) ==
    LET total == control_n + treatment_n
        e1    == total * a
        e2    == total * (b - a)
        d1    == control_n * b - e1
        d2    == treatment_n * b - e2
        chi2  == FloorMicro(d1 * d1, b * e1) + FloorMicro(d2 * d2, b * e2)
    IN  [statistic |-> chi2, p_value |-> ChiSquareSF(chi2)]

\* format(num / den, ".1%"): the percentage with one decimal, the exact
\* value rounded half to even.
Pct1(num, den) ==
    LET n      == 1000 * num
        q      == n \div den
        twice  == 2 * (n % den)
        tenths == IF twice > den \/ (twice = den /\ q % 2 = 1) THEN q + 1 ELSE q
    IN  ToString(tenths \div 10) \o "." \o ToString(tenths % 10) \o "%"

\* format(p, ".4f") of a probability held in units of 1/10000.
Fmt4(p) ==
    LET frac == p % One
        pad  == IF frac < 10 THEN "000" ELSE IF frac < 100 THEN "00"
                ELSE IF frac < 1000 THEN "0" ELSE ""
    IN  ToString(p \div One) \o "." \o pad \o ToString(frac)

\* SRMResult(...): the ratios are fractions <<num, den>>.
SRMResult(is_srm, p_value, expected_ratio, observed_ratio, control_n, treatment_n, message) ==
    [kind |-> "value", is_srm_detected |-> is_srm, p_value |-> p_value,
     expected_ratio |-> expected_ratio, observed_ratio |-> observed_ratio,
     control_n |-> control_n, treatment_n |-> treatment_n, message |-> message]

\* the flag set when p_value <= alpha
SRMFlag_Inclusive(p_value, alpha) == p_value <= alpha

\* the comparison p_value < alpha of detect_sample_ratio_mismatch
SRMFlag(p_value, alpha) == p_value < alpha

\* detect_sample_ratio_mismatch whose result for no samples keeps a
\* p-value of 0.0 and the observed ratio of an even split.
detect_NoSamplesDefaults(control_n, treatment_n, expected_ratio, alpha) ==
    LET total == control_n + treatment_n
    IN  IF total = 0
        THEN SRMResult(FALSE, 0, expected_ratio, <<1, 2>>, control_n, treatment_n,
                       "No samples to analyze")
        ELSE LET test == chisquare(control_n, treatment_n, expected_ratio[1], expected_ratio[2])
             IN  SRMResult(SRMFlag(test.p_value, alpha), test.p_value, expected_ratio,
                           <<control_n, total>>, control_n, treatment_n, "")

\* detect_sample_ratio_mismatch(control_n, treatment_n, expected_ratio, alpha)
\* with expected_ratio = <<a, b>> standing for a / b, 0 < a < b.
detect_sample_ratio_mismatch(control_n, treatment_n, expected_ratio, alpha) ==
    LET a     == expected_ratio[1]
        b     == expected_ratio[2]
        total == control_n + treatment_n
    IN  IF total = 0
        THEN SRMResult(FALSE, One, expected_ratio, <<0, 1>>, control_n, treatment_n,
                       "No samples to analyze")
        ELSE LET test     == chisquare(control_n, treatment_n, a, b)
                 is_srm   == SRMFlag(test.p_value, alpha)
                 expected == Pct1(a, b) \o "/" \o Pct1(b - a, b)
                 observed == Pct1(control_n, total) \o "/" \o Pct1(treatment_n, total)
                 message  ==
                     IF is_srm
                     THEN "SRM DETECTED: Expected " \o expected \o " split, observed "
                          \o observed \o ". This may indicate randomization or data collection issues."
                     ELSE "No SRM detected. Observed split (" \o observed
                          \o ") is consistent with expected (" \o expected \o ")."
             IN  SRMResult(is_srm, test.p_value, expected_ratio, <<control_n, total>>,
                           control_n, treatment_n, message)

\* The defaults expected_ratio = 0.5 and alpha = 0.01 of
\* detect_sample_ratio_mismatch.
DefaultExpectedRatio == <<1, 2>>

DefaultSRMAlpha == 100

(***************************************************************************)
(* metrics.py : validation of an events table                              *)
(***************************************************************************)

\* An optional argument: None, or a value.
None == [some |-> FALSE]

Some(x) == [some |-> TRUE, value |-> x]

\* An events DataFrame: the set of its column names and its rows.
Table(columns, rows) == [columns |-> columns, rows |-> rows]

\* raise KeyError(column)
KeyError(col) == [kind |-> "error", error |-> "KeyError", message |-> col]

\* str(list_of_str), e.g. ['user_id', 'event_type']
RECURSIVE PyListItems(_)
PyListItems(seq) ==
    IF seq = <<>> THEN ""
    ELSE IF Len(seq) = 1 THEN "'" \o seq[1] \o "'"
    ELSE "'" \o seq[1] \o "', " \o PyListItems(Tail(seq))

PyList(seq) == "[" \o PyListItems(seq) \o "]"

\* get_variant_sample_sizes(events) on a table that has the columns it
\* reads: for every non-missing variant with an exposure row, the number
\* of distinct non-missing users of its exposure rows (groupby drops
\* missing keys, nunique does not count missing values).
get_variant_sample_sizes(rows) ==
    LET exposure_events == SelectSeq(rows, LAMBDA r : r.event_type = "exposure")
        groups == {exposure_events[i].variant_name : i \in 1..Len(exposure_events)}
                      \ {NullVariant}
    IN  [v \in groups |->
            Cardinality({exposure_events[i].user_id : i \in
                {j \in 1..Len(exposure_events) : exposure_events[j].variant_name = v}}
                \ {NullUser})]

\* events[col].isna().sum() for col = "user_id" and col = "variant_name"
NullCount(rows, col) ==
    IF col = "user_id"
    THEN Len(SelectSeq(rows, LAMBDA r : r.user_id = NullUser))
    ELSE Len(SelectSeq(rows, LAMBDA r : r.variant_name = NullVariant))

\* The issue reported for a variant (role is "Control" or "Treatment"):
\* absent from sizes, or below the minimum, or none (the empty list).
VariantIssue(role, name, sizes, min_sample_size) ==
    IF name \notin DOMAIN sizes
    THEN << role \o " variant '" \o name \o "' not found" >>
    ELSE IF sizes[name] < min_sample_size
    THEN << role \o " sample size (" \o ToString(sizes[name]) \o ") below minimum ("
            \o ToString(min_sample_size) \o ")" >>
    ELSE <<>>

\* The issue of the null-count loop for one column.
NullIssue(rows, col) ==
    IF NullCount(rows, col) > 0
    THEN << "Column '" \o col \o "' has " \o ToString(NullCount(rows, col)) \o " null values" >>
    ELSE <<>>

\* The SRM issue: only looked for when both variants are in sizes.
SRMIssue(sizes, control_name, treatment_name) ==
    IF control_name \in DOMAIN sizes /\ treatment_name \in DOMAIN sizes
    THEN LET srm == detect_sample_ratio_mismatch(sizes[control_name], sizes[treatment_name],
                                                 DefaultExpectedRatio, DefaultSRMAlpha)
         IN  IF srm.is_srm_detected
             THEN << "Sample Ratio Mismatch detected (p=" \o Fmt4(srm.p_value) \o ")" >>
             ELSE <<>>
    ELSE <<>>

\* the returned pair with the flag computed before the last checks ran
Validation_FlagFirst(is_valid, issues) ==
    [kind |-> "value", is_valid |-> is_valid \/ Len(issues) = 1, issues |-> issues]

\* return is_valid, issues
Validation(is_valid, issues) == [kind |-> "value", is_valid |-> is_valid, issues |-> issues]

\* The columns the checks after the row count read.
ReadColumns == {"user_id", "variant_name", "event_type"}

\* RemainingChecks with the null counts skipped once a variant issue was found.
RemainingChecks_StopAtFirst(events, min_sample_size, control_name, treatment_name) ==
    LET sizes   == get_variant_sample_sizes(events.rows)
        variant == VariantIssue("Control", control_name, sizes, min_sample_size)
                   \o VariantIssue("Treatment", treatment_name, sizes, min_sample_size)
        issues  == IF variant /= <<>> THEN variant
                   ELSE NullIssue(events.rows, "user_id")
                        \o NullIssue(events.rows, "variant_name")
                        \o SRMIssue(sizes, control_name, treatment_name)
    IN  IF ReadColumns \subseteq events.columns
        THEN Validation(Len(issues) = 0, issues)
        ELSE KeyError("event_type")

\* The checks of validate_experiment_data after the row count.
RemainingChecks(events, min_sample_size, control_name, treatment_name) ==
    IF "event_type" \notin events.columns THEN KeyError("event_type")
    ELSE IF "variant_name" \notin events.columns THEN KeyError("variant_name")
    ELSE IF "user_id" \notin events.columns THEN KeyError("Column not found: user_id")
    ELSE LET sizes  == get_variant_sample_sizes(events.rows)
             issues == VariantIssue("Control", control_name, sizes, min_sample_size)
                       \o VariantIssue("Treatment", treatment_name, sizes, min_sample_size)
                       \o NullIssue(events.rows, "user_id")
                       \o NullIssue(events.rows, "variant_name")
                       \o SRMIssue(sizes, control_name, treatment_name)
         IN  Validation(Len(issues) = 0, issues)

\* validate_experiment_data going on to the later checks after it has
\* reported missing columns.
validate_NoShortCircuit(events, required_columns, min_sample_size, control_name, treatment_name) ==
    LET required == IF ~required_columns.some THEN DefaultRequiredColumns
                    ELSE required_columns.value
        missing_cols == SelectSeq(required, LAMBDA col : col \notin events.columns)
        first == IF missing_cols /= <<>>
                 THEN << "Missing required columns: " \o PyList(missing_cols) >> ELSE <<>>
    IN  IF Len(events.rows) = 0
        THEN Validation(FALSE, first \o <<"No events in dataset">>)
        ELSE LET rest == RemainingChecks(events, min_sample_size, control_name, treatment_name)
             IN  IF rest.kind = "error" THEN rest
                 ELSE Validation(Len(first \o rest.issues) = 0, first \o rest.issues)

\* validate_experiment_data(events, required_columns, min_sample_size,
\*                          control_name, treatment_name)
validate_experiment_data(events, required_columns, min_sample_size, control_name, treatment_name) ==
    LET required == IF ~required_columns.some THEN DefaultRequiredColumns
                    ELSE required_columns.value
        missing_cols == SelectSeq(required, LAMBDA col : col \notin events.columns)
    IN  IF missing_cols /= <<>>
        THEN Validation(FALSE, << "Missing required columns: " \o PyList(missing_cols) >>)
        ELSE IF Len(events.rows) = 0
        THEN Validation(FALSE, <<"No events in dataset">>)
        ELSE RemainingChecks(events, min_sample_size, control_name, treatment_name)

(***************************************************************************)
(* effect_sizes.py                                                         *)
(***************************************************************************)

\* EffectSizeResult(value=..., interpretation=..., metric_name=...)
EffectSizeResult(value, interpretation, metric_name) ==
    [kind |-> "value", value |-> value, interpretation |-> interpretation,
     metric_name |-> metric_name]

\* float("inf")
Infinity == [inf |-> TRUE]

\* a finite float value, kept as the fraction num / den; above tells that
\* the float lies just above the fraction (by rounding)
Frac(num, den) == [inf |-> FALSE, num |-> num, den |-> den, above |-> FALSE]

\* The pairs of rates (in 1/10000) of RateGrid whose difference, computed in
\* binary floating point, is smaller than the exact one by enough that
\* 1 / diff lies above the exact quotient: 1/abs(0.03 - 0.01) is
\* 50.00000000000001, 1/abs(0.03 - 0.02) is 100.00000000000001, 1/abs(0.06 -
\* 0.05) is 100.00000000000006.
FloatNNTAbove == {{100, 300}, {200, 300}, {500, 600}}

\* nnt = 1 / diff for diff = abs(treatment_rate - control_rate), as the float
\* the division returns
NNTValue(control_rate, treatment_rate) ==
    [Frac(One, Abs(treatment_rate - control_rate))
        EXCEPT !.above = {control_rate, treatment_rate} \in FloatNNTAbove]

\* nnt <= k for nnt = 1 / abs(treatment_rate - control_rate) as the floats
\* compare: by the exact values, except on the pairs of FloatNNTAbove.
NNTAtMost(control_rate, treatment_rate, k) ==
    LET diff == Abs(treatment_rate - control_rate)
    IN  \/ One < k * diff
        \/ One = k * diff /\ {control_rate, treatment_rate} \notin FloatNNTAbove

\* number_needed_to_treat with "moderate effect" reaching up to NNT = 1000.
number_needed_to_treat_WideModerate(control_rate, treatment_rate) ==
    LET diff == Abs(treatment_rate - control_rate)
    IN  IF diff = 0 THEN EffectSizeResult(Infinity, "no effect", "NNT")
        ELSE EffectSizeResult(NNTValue(control_rate, treatment_rate),
                 IF NNTAtMost(control_rate, treatment_rate, 10) THEN "very strong effect"
                 ELSE IF NNTAtMost(control_rate, treatment_rate, 50) THEN "strong effect"
                 ELSE IF NNTAtMost(control_rate, treatment_rate, 1000) THEN "moderate effect"
                 ELSE "weak effect",
                 "NNT")

\* number_needed_to_treat dividing by the difference whatever it is.
number_needed_to_treat_Unguarded(control_rate, treatment_rate) ==
    LET diff == Abs(treatment_rate - control_rate)
    IN  IF diff = 0
        THEN [kind |-> "error", error |-> "ZeroDivisionError",
              message |-> "float division by zero"]
        ELSE EffectSizeResult(NNTValue(control_rate, treatment_rate),
                 IF NNTAtMost(control_rate, treatment_rate, 10) THEN "very strong effect"
                 ELSE IF NNTAtMost(control_rate, treatment_rate, 50) THEN "strong effect"
                 ELSE IF NNTAtMost(control_rate, treatment_rate, 100) THEN "moderate effect"
                 ELSE "weak effect",
                 "NNT")

\* number_needed_to_treat(control_rate, treatment_rate), rates in 1/10000
number_needed_to_treat(control_rate, treatment_rate) ==
    LET diff == Abs(treatment_rate - control_rate)
    IN  IF diff = 0 THEN EffectSizeResult(Infinity, "no effect", "NNT")
        ELSE EffectSizeResult(NNTValue(control_rate, treatment_rate),
                 IF NNTAtMost(control_rate, treatment_rate, 10) THEN "very strong effect"
                 ELSE IF NNTAtMost(control_rate, treatment_rate, 50) THEN "strong effect"
                 ELSE IF NNTAtMost(control_rate, treatment_rate, 100) THEN "moderate effect"
                 ELSE "weak effect",
                 "NNT")

(***************************************************************************)
(* Floats of the inference functions                                       *)
(*                                                                         *)
(* A float the code computes is nan, +inf, -inf, or a number; numbers are  *)
(* kept in units of 1/10000, rounded down.                                 *)
(***************************************************************************)
NaN == [kind |-> "nan"]

PosInf == [kind |-> "inf"]

NegInf == [kind |-> "-inf"]

Num(v) == [kind |-> "num", v |-> v]

\* a + b and a - b on floats
FAdd(a, b) ==
    IF a.kind = "nan" \/ b.kind = "nan" THEN NaN
    ELSE IF a.kind = "num" /\ b.kind = "num" THEN Num(a.v + b.v)
    ELSE IF a.kind = "num" THEN b
    ELSE IF b.kind = "num" \/ a.kind = b.kind THEN a
    ELSE NaN

FNeg(a) ==
    IF a.kind = "inf" THEN NegInf
    ELSE IF a.kind = "-inf" THEN PosInf
    ELSE IF a.kind = "num" THEN Num(-a.v)
    ELSE NaN

FSub(a, b) == FAdd(a, FNeg(b))

\* a <= b on floats (false when either is nan)
FLeq(a, b) ==
    /\ a.kind /= "nan" /\ b.kind /= "nan"
    /\ \/ a.kind = "-inf"
       \/ b.kind = "inf"
       \/ a.kind = "num" /\ b.kind = "num" /\ a.v <= b.v

\* floor(sqrt(n)) for n >= 0
RECURSIVE IsqrtBetween(_, _, _)
IsqrtBetween(n, lo, hi) ==
    IF lo >= hi THEN lo
    ELSE LET mid == (lo + hi + 1) \div 2
         IN  IF mid * mid <= n THEN IsqrtBetween(n, mid, hi)
             ELSE IsqrtBetween(n, lo, mid - 1)

Isqrt(n) == IsqrtBetween(n, 0, 46340)

\* num / den in units of 1/10000, rounded down (den > 0)
Fixed(num, den) == (num * One) \div den

(***************************************************************************)
(* confidence_intervals.py                                                 *)
(***************************************************************************)

\* ConfidenceInterval(point_estimate=..., lower=..., upper=..., confidence_level=...)
ConfidenceInterval(point_estimate, lower, upper, confidence_level) ==
    [kind |-> "value", point_estimate |-> point_estimate, lower |-> lower,
     upper |-> upper, confidence_level |-> confidence_level]

\* Quantiles of the standard normal distribution: <<c, z>> says
\* norm.ppf((1 + c / 10000) / 2) = z / 1000.
NormalQuantiles == << <<0, 0>>, <<9000, 1645>>, <<9500, 1960>>, <<9900, 2576>> >>

\* the confidence levels of NormalQuantiles
TabulatedConfidences == {NormalQuantiles[i][1] : i \in 1..Len(NormalQuantiles)}

ZOf(c) == NormalQuantiles[CHOOSE i \in 1..Len(NormalQuantiles) : NormalQuantiles[i][1] = c][2]

\* stats.norm.ppf(1 - alpha / 2) with alpha = 1 - confidence, in units of
\* 1/1000: nan outside [0, 1], -inf at 0, +inf at 1.  Inside, the argument
\* is (1 + confidence) / 2 and the quantile is odd about 1/2.
z_crit(confidence) ==
    IF confidence > One \/ confidence < -One THEN NaN
    ELSE IF confidence = One THEN PosInf
    ELSE IF confidence = -One THEN NegInf
    ELSE IF confidence >= 0 THEN Num(ZOf(confidence))
    ELSE Num(-ZOf(-confidence))

\* crit * se for a critical value (units of 1/1000) and a standard error
\* (units of 1/10000), in units of 1/10000
Margin(crit, se) ==
    IF crit.kind = "nan" THEN NaN
    ELSE IF crit.kind = "num" THEN Num((crit.v * se) \div 1000)
    ELSE IF se = 0 THEN NaN
    ELSE crit

\* a + b for fractions <<num, den>> with positive denominators
FracSum(a, b) ==
    LET g == Gcd(a[2], b[2])
    IN  <<a[1] * (b[2] \div g) + b[1] * (a[2] \div g), (a[2] \div g) * b[2]>>

\* math.sqrt(x) in units of 1/10000 for x = micro / 10^6
SqrtMicro(micro) == IF micro < 20000000 THEN Isqrt(micro * 100) ELSE Isqrt(micro) * 10

\* math.sqrt of a fraction that is not negative, in units of 1/10000
SqrtFixed(f) == SqrtMicro(FloorMicro(f[1], f[2]))

\* a * b for fractions <<num, den>> with positive denominators, reduced
FracMul(a, b) ==
    LET g1 == Gcd(Abs(a[1]), b[2])
        g2 == Gcd(Abs(b[1]), a[2])
        h1 == IF g1 = 0 THEN 1 ELSE g1
        h2 == IF g2 = 0 THEN 1 ELSE g2
    IN  <<(a[1] \div h1) * (b[1] \div h2), (a[2] \div h2) * (b[2] \div h1)>>

\* p * (1 - p) / n for p = s / n, as the fraction <<num, den>>
BinomialVar(s, n) == <<s * (n - s), n * n * n>>

\* difference_confidence_interval_proportions(control_successes, control_total,
\*     treatment_successes, treatment_total, confidence)
difference_confidence_interval_proportions(control_successes, control_total, treatment_successes, treatment_total, confidence) ==
    IF control_total <= 0 \/ treatment_total <= 0
    THEN Raise("sample sizes must be positive")
    ELSE LET v1   == BinomialVar(control_successes, control_total)
             v2   == BinomialVar(treatment_successes, treatment_total)
             diff == <<treatment_successes * control_total - control_successes * treatment_total,
                       control_total * treatment_total>>
             var  == FracSum(v1, v2)
         IN  IF var[1] < 0 THEN Raise("math domain error")
             ELSE LET se     == SqrtFixed(var)
                      margin == Margin(z_crit(confidence), se)
                      point  == Num(Fixed(diff[1], diff[2]))
                  IN  ConfidenceInterval(diff, FSub(point, margin), FAdd(point, margin),
                                         confidence)

\* relative_difference_confidence_interval(control_successes, control_total,
\*     treatment_successes, treatment_total, confidence): the delta-method
\* interval on (p2 - p1) / p1.
relative_difference_confidence_interval(control_successes, control_total, treatment_successes, treatment_total, confidence) ==
    IF control_total <= 0 \/ treatment_total <= 0
    THEN Raise("sample sizes must be positive")
    ELSE IF control_successes <= 0
    THEN Raise("control rate must be positive for relative lift")
    ELSE LET s1 == control_successes
             n1 == control_total
             s2 == treatment_successes
             n2 == treatment_total
             lift == <<s2 * n1 - s1 * n2, s1 * n2>>
             \* (1 / p1^2) * var_p2  and  (p2 / p1^2)^2 * var_p1
             t1 == FracMul(<<s2 * (n2 - s2), n2 * n2 * n2>>, <<n1 * n1, s1 * s1>>)
             t2 == FracMul(<<s2 * s2, n2 * n2>>, <<n1 * (n1 - s1), s1 * s1 * s1>>)
             var == FracSum(t1, t2)
         IN  IF var[1] < 0 THEN Raise("math domain error")
             ELSE LET margin == Margin(z_crit(confidence), SqrtFixed(var))
                      point  == Num(Fixed(lift[1], lift[2]))
                  IN  ConfidenceInterval(lift, FSub(point, margin), FAdd(point, margin),
                                         confidence)

\* proportion_confidence_interval accepting confidence = 0.
proportion_confidence_interval_ZeroAccepted(successes, total, confidence, rounding) ==
    IF ~(0 <= confidence /\ confidence < One)
    THEN Raise("confidence must be between 0 and 1")
    ELSE IF total <= 0 THEN Raise("total must be positive")
    ELSE IF successes < 0 \/ successes > total
    THEN Raise("successes must be between 0 and total")
    ELSE LET z      == ZOf(confidence)
             z2     == (z * z) \div 1000
             den    == total * 1000 + z2
             center == Fixed(successes * 1000 + z2 \div 2, den)
             rad    == FloorMicro(4000 * successes * (total - successes) + total * z2,
                                  4000 * total)
             half   == (z * Isqrt(rad) * 10) \div den
             lower  == IF successes = 0 THEN rounding ELSE center - half
             upper  == IF successes = total THEN One + rounding ELSE center + half
         IN  ConfidenceInterval(<<successes, total>>, Num(lower), Num(upper), confidence)

\* proportion_confidence_interval(successes, total, confidence) with the
\* default method="wilson": statsmodels' proportion_confint returns
\* center - dist and center + dist unclipped, with
\*   center = (s + z^2 / 2) / (n + z^2),
\*   dist   = z * sqrt(s * (n - s) / n + z^2 / 4) / (n + z^2).  Where the exact bound equals
\* the point estimate (the lower bound 0 at successes = 0, the upper bound 1
\* at successes = total) the float is the exact value or a neighbour of
\* it; rounding is the floor of that error in units of 1/10000 (-1 for a
\* float just below the exact bound, 0 otherwise).
proportion_confidence_interval(successes, total, confidence, rounding) ==
    IF ~(0 < confidence /\ confidence < One)
    THEN Raise("confidence must be between 0 and 1")
    ELSE IF total <= 0 THEN Raise("total must be positive")
    ELSE IF successes < 0 \/ successes > total
    THEN Raise("successes must be between 0 and total")
    ELSE LET z      == ZOf(confidence)
             z2     == (z * z) \div 1000
             den    == total * 1000 + z2
             center == Fixed(successes * 1000 + z2 \div 2, den)
             rad    == FloorMicro(4000 * successes * (total - successes) + total * z2,
                                  4000 * total)
             half   == (z * Isqrt(rad) * 10) \div den
             lower  == IF successes = 0 THEN rounding ELSE center - half
             upper  == IF successes = total THEN One + rounding ELSE center + half
         IN  ConfidenceInterval(<<successes, total>>, Num(lower), Num(upper), confidence)

(***************************************************************************)
(* Samples: sequences of numbers (np.ndarray)                              *)
(***************************************************************************)
RECURSIVE Sum(_)
Sum(data) == IF data = <<>> THEN 0 ELSE Head(data) + Sum(Tail(data))

SumSq(data) == Sum([i \in 1..Len(data) |-> data[i] * data[i]])

\* np.mean(data), the fraction <<num, den>> (Len(data) > 0)
Mean(data) == <<Sum(data), Len(data)>>

\* len(data) * (len(data) - 1) * np.var(data, ddof=1), an integer
Scatter(data) == Len(data) * SumSq(data) - Sum(data) * Sum(data)

\* np.var(data, ddof=1) (Len(data) > 1)
Var(data) == <<Scatter(data), Len(data) * (Len(data) - 1)>>

\* np.var(data, ddof=1) / len(data)
VarOverN(data) == <<Scatter(data), Len(data) * Len(data) * (Len(data) - 1)>>

\* mean2 - mean1 of two samples
MeanDiff(control, treatment) ==
    <<Sum(treatment) * Len(control) - Sum(control) * Len(treatment),
      Len(control) * Len(treatment)>>

\* Quantiles of Student's t distribution: StudentQuantiles[df] holds
\* stats.t.ppf((1 + c) / 2, df) * 1000 for c = 0.90, 0.95, 0.99.
StudentQuantiles ==
    << <<6314, 12706, 63657>>, <<2920, 4303, 9925>>, <<2353, 3182, 5841>>,
       <<2132, 2776, 4604>>,   <<2015, 2571, 4032>>, <<1943, 2447, 3707>>,
       <<1895, 2365, 3499>>,   <<1860, 2306, 3355>> >>

\* TOf reading the 0.99 column for 0.95 and the 0.95 column for 0.99
TOf_Swapped(c, df) ==
    LET row == StudentQuantiles[IF df > Len(StudentQuantiles) THEN Len(StudentQuantiles) ELSE df]
    IN  IF c = 0 THEN 0 ELSE IF c = 9000 THEN row[1] ELSE IF c = 9500 THEN row[3] ELSE row[2]

TOf(c, df) ==
    LET row == StudentQuantiles[IF df > Len(StudentQuantiles) THEN Len(StudentQuantiles) ELSE df]
    IN  IF c = 0 THEN 0 ELSE IF c = 9000 THEN row[1] ELSE IF c = 9500 THEN row[2] ELSE row[3]

\* stats.t.ppf(1 - alpha / 2, df) with alpha = 1 - confidence, in units of
\* 1/1000; df is a whole number of degrees of freedom (a fractional Welch
\* df is rounded down) or NaN.
t_crit(confidence, df) ==
    IF df.kind = "nan" THEN NaN
    ELSE IF confidence > One \/ confidence < -One THEN NaN
    ELSE IF confidence = One THEN PosInf
    ELSE IF confidence = -One THEN NegInf
    ELSE IF confidence >= 0 THEN Num(TOf(confidence, df.v))
    ELSE Num(-TOf(-confidence, df.v))

\* The Welch-Satterthwaite degrees of freedom
\*   (v1/n1 + v2/n2)^2 / ((v1/n1)^2 / (n1 - 1) + (v2/n2)^2 / (n2 - 1)),
\* rounded down; 0.0 / 0.0 = nan when both variances are zero.
WelchDf(control, treatment) ==
    LET a  == VarOverN(control)
        b  == VarOverN(treatment)
        u  == a[1] * b[2]
        w  == b[1] * a[2]
        m1 == Len(control) - 1
        m2 == Len(treatment) - 1
    IN  IF u + w = 0 THEN NaN
        ELSE Num(((u + w) * (u + w) * m1 * m2) \div (u * u * m2 + w * w * m1))

\* mean_confidence_interval(data, confidence)
mean_confidence_interval(data, confidence) ==
    IF ~(0 < confidence /\ confidence < One)
    THEN Raise("confidence must be between 0 and 1")
    ELSE IF Len(data) < 2 THEN Raise("Need at least 2 data points")
    ELSE LET std_err == SqrtFixed(VarOverN(data))
             margin  == Margin(t_crit(confidence, Num(Len(data) - 1)), std_err)
             point   == Num(Fixed(Sum(data), Len(data)))
         IN  ConfidenceInterval(Mean(data), FSub(point, margin), FAdd(point, margin),
                                confidence)

\* difference_confidence_interval_means(control_data, treatment_data,
\*                                      confidence, equal_var)
difference_confidence_interval_means(control, treatment, confidence, equal_var) ==
    IF Len(control) < 2 \/ Len(treatment) < 2
    THEN Raise("Need at least 2 data points per group")
    ELSE LET n1   == Len(control)
             n2   == Len(treatment)
             diff == MeanDiff(control, treatment)
             pooled == <<(Scatter(control) * n2 + Scatter(treatment) * n1) * (n1 + n2),
                         n1 * n1 * n2 * n2 * (n1 + n2 - 2)>>
             se   == IF equal_var THEN SqrtFixed(pooled)
                     ELSE SqrtFixed(FracSum(VarOverN(control), VarOverN(treatment)))
             df   == IF equal_var THEN Num(n1 + n2 - 2) ELSE WelchDf(control, treatment)
             margin == Margin(t_crit(confidence, df), se)
             point  == Num(Fixed(diff[1], diff[2]))
         IN  ConfidenceInterval(diff, FSub(point, margin), FAdd(point, margin), confidence)

(***************************************************************************)
(* effect_sizes.py : effect sizes of the hypothesis tests                  *)
(*                                                                         *)
(* A rate is the fraction <<successes, total>> the caller divides.         *)
(***************************************************************************)

\* sin(c / 2)^2 in units of 10^-6 for the thresholds c of _interpret_cohens_d
\* (c in 1/10000): |h| >= c  iff  sin(h / 2)^2 >= sin(c / 2)^2.
SinSqHalf(c) == IF c = 2000 THEN 9967 ELSE IF c = 5000 THEN 61209 ELSE 151647

\* D * 10^6 * sin(h / 2)^2 for Cohen's h of the rates a1 / n1 and a2 / n2
\* and D = n1 * n2:
\*   sin(h / 2)^2 = p2 (1 - p1) + p1 (1 - p2) - 2 sqrt(p1 p2 (1 - p1) (1 - p2)).
HNum(control_rate, treatment_rate) ==
    LET A == treatment_rate[1] * (control_rate[2] - control_rate[1])
        B == control_rate[1] * (treatment_rate[2] - treatment_rate[1])
    IN  ((A + B) * 1000 - 2 * Isqrt(A * B * 1000000)) * 1000

\* abs(h) >= c / 10000
HAtLeast(control_rate, treatment_rate, c) ==
    HNum(control_rate, treatment_rate) >= SinSqHalf(c) * control_rate[2] * treatment_rate[2]

\* A float handed to _interpret_cohens_d, kept by what the function reads of
\* it: its sign and the thresholds (in 1/10000) its absolute value reaches.
Compared(sign, reaches) == [sign |-> sign, reaches |-> reaches]

\* abs(x) of such a float
fabs(x) == [x EXCEPT !.sign = Abs(x.sign)]

\* d < c / 10000 as the floats compare: a negative d is below every threshold
Below(d, c) == d.sign < 0 \/ c \notin d.reaches

\* _interpret_cohens_d(d)
interpret_cohens_d(d) ==
    IF Below(d, 2000) THEN "negligible"
    ELSE IF Below(d, 5000) THEN "small"
    ELSE IF Below(d, 8000) THEN "medium"
    ELSE "large"

\* h = phi2 - phi1 as _interpret_cohens_d reads it
HCompared(control_rate, treatment_rate) ==
    LET cross == treatment_rate[1] * control_rate[2] - control_rate[1] * treatment_rate[2]
    IN  Compared(IF cross > 0 THEN 1 ELSE IF cross < 0 THEN -1 ELSE 0,
                 {c \in {2000, 5000, 8000} : HAtLeast(control_rate, treatment_rate, c)})

\* _interpret_cohens_d(abs(h))
InterpretH(control_rate, treatment_rate) ==
    interpret_cohens_d(fabs(HCompared(control_rate, treatment_rate)))

\* cohens_h(control_rate, treatment_rate); the value h is kept by its sign
\* and by sin(h / 2)^2 in units of 10^-6.
cohens_h(control_rate, treatment_rate) ==
    IF ~(0 <= control_rate[1] /\ control_rate[1] <= control_rate[2])
    THEN Raise("control_rate must be between 0 and 1")
    ELSE IF ~(0 <= treatment_rate[1] /\ treatment_rate[1] <= treatment_rate[2])
    THEN Raise("treatment_rate must be between 0 and 1")
    ELSE LET cross == treatment_rate[1] * control_rate[2] - control_rate[1] * treatment_rate[2]
         IN  EffectSizeResult(
                 [sign |-> IF cross > 0 THEN 1 ELSE IF cross < 0 THEN -1 ELSE 0,
                  sinsq |-> HNum(control_rate, treatment_rate)
                                \div (control_rate[2] * treatment_rate[2])],
                 InterpretH(control_rate, treatment_rate), "Cohen's h")

\* relative_lift dividing by control_value whatever it is.
relative_lift_Unguarded(control_value, treatment_value) ==
    IF control_value[1] = 0 THEN [kind |-> "error", error |-> "ZeroDivisionError",
          message |-> "float division by zero"]
    ELSE LET num == 100 * (treatment_value[1] * control_value[2]
                           - control_value[1] * treatment_value[2])
             den == control_value[1] * treatment_value[2]
             mag == Abs(num)
             pos == Abs(den)
         IN  EffectSizeResult(IF den > 0 THEN <<num, den>> ELSE <<-num, -den>>,
                 IF mag < pos THEN "negligible"
                 ELSE IF mag < 5 * pos THEN "small"
                 ELSE IF mag < 10 * pos THEN "medium"
                 ELSE "large",
                 "relative_lift_percent")

\* relative_lift(control_value, treatment_value) on two fractions: the
\* value (treatment - control) / control * 100 as a fraction.
relative_lift(control_value, treatment_value) ==
    IF control_value[1] = 0 THEN Raise("control_value cannot be zero")
    ELSE LET num == 100 * (treatment_value[1] * control_value[2]
                           - control_value[1] * treatment_value[2])
             den == control_value[1] * treatment_value[2]
             mag == Abs(num)
             pos == Abs(den)
         IN  EffectSizeResult(IF den > 0 THEN <<num, den>> ELSE <<-num, -den>>,
                 IF mag < pos THEN "negligible"
                 ELSE IF mag < 5 * pos THEN "small"
                 ELSE IF mag < 10 * pos THEN "medium"
                 ELSE "large",
                 "relative_lift_percent")

\* absolute_difference(control_value, treatment_value) on two fractions
absolute_difference(control_value, treatment_value) ==
    EffectSizeResult(<<treatment_value[1] * control_value[2]
                       - control_value[1] * treatment_value[2],
                       control_value[2] * treatment_value[2]>>,
                     "n/a", "absolute_difference")

\* odds_ratio(control_rate, treatment_rate) on two fractions; the bands of the
\* interpretation are compared exactly (in hundredths).
odds_ratio(control_rate, treatment_rate) ==
    IF ~(0 < control_rate[1] /\ control_rate[1] < control_rate[2])
    THEN Raise("control_rate must be between 0 and 1 (exclusive)")
    ELSE IF ~(0 < treatment_rate[1] /\ treatment_rate[1] < treatment_rate[2])
    THEN Raise("treatment_rate must be between 0 and 1 (exclusive)")
    ELSE LET num == treatment_rate[1] * (control_rate[2] - control_rate[1])
             den == (treatment_rate[2] - treatment_rate[1]) * control_rate[1]
             Within(lo, hi) == lo * den <= 100 * num /\ 100 * num <= hi * den
         IN  EffectSizeResult(<<num, den>>,
                 IF Within(90, 110) THEN "negligible"
                 ELSE IF Within(67, 150) THEN "small"
                 ELSE IF Within(40, 250) THEN "medium"
                 ELSE "large",
                 "odds_ratio")

\* risk_ratio(control_rate, treatment_rate) on two fractions
risk_ratio(control_rate, treatment_rate) ==
    IF control_rate[1] <= 0 THEN Raise("control_rate must be positive")
    ELSE IF treatment_rate[1] < 0 THEN Raise("treatment_rate cannot be negative")
    ELSE LET num == treatment_rate[1] * control_rate[2]
             den == control_rate[1] * treatment_rate[2]
             Within(lo, hi) == lo * den <= 100 * num /\ 100 * num <= hi * den
         IN  EffectSizeResult(<<num, den>>,
                 IF Within(95, 105) THEN "negligible"
                 ELSE IF Within(80, 125) THEN "small"
                 ELSE IF Within(50, 200) THEN "medium"
                 ELSE "large",
                 "risk_ratio")

(***************************************************************************)
(* schemas.py : StatisticalTestResultSchema                                *)
(***************************************************************************)

\* pydantic's ValidationError
ValidationError(field) == [kind |-> "error", error |-> "ValidationError", message |-> field]

\* The Field(ge=0, le=1) constraint on a float x (units of 1/10000).  A nan
\* compares false with everything: whether the constraint then accepts it
\* depends on how the installed pydantic writes the comparison, which
\* nan_in_range says.
InUnitRange(x, nan_in_range) ==
    IF x.kind = "nan" THEN nan_in_range
    ELSE FLeq(Num(0), x) /\ FLeq(x, Num(One))

\* StatisticalTestResultSchema(**fields): the record of the fields, once
\* p_value and confidence_level pass their constraints.
StatisticalTestResultSchema(fields, nan_in_range) ==
    IF ~InUnitRange(fields.p_value, nan_in_range) THEN ValidationError("p_value")
    ELSE IF ~InUnitRange(Num(fields.confidence_level), nan_in_range)
    THEN ValidationError("confidence_level")
    ELSE fields

(***************************************************************************)
(* hypothesis_testing.py : tests on proportions                            *)
(***************************************************************************)

\* a < b on floats (false when either is nan)
FLess(a, b) == FLeq(a, b) /\ a /= b

\* 1 - stats.norm.cdf(z) from z^2 = x (units of 10^-6) and the sign of z, as
\* half of chi2.sf(x, 1) or its complement, rounded down to the grid of
\* ChiSquareQuantiles.
ChiSquareSFAbove(xMicro) ==
    LET hits == {i \in 1..Len(ChiSquareQuantiles) : xMicro > ChiSquareQuantiles[i][2]}
    IN  IF hits = {} THEN One
        ELSE ChiSquareQuantiles[CHOOSE i \in hits : \A j \in hits : i >= j][1]

NormalSF(xMicro, sign) ==
    IF sign >= 0 THEN ChiSquareSF(xMicro) \div 2
    ELSE One - (ChiSquareSFAbove(xMicro) + 1) \div 2

ZeroDivisionError == [kind |-> "error", error |-> "ZeroDivisionError",
                      message |-> "float division by zero"]

Sign(x) == IF x > 0 THEN 1 ELSE IF x < 0 THEN -1 ELSE 0

\* pooled_se == 0: pooled_p * (1 - pooled_p) * (1 / n1 + 1 / n2) is zero
\* exactly when the pooled rate is 0 or 1
PooledSEZero(control_successes, control_n, treatment_successes, treatment_n) ==
    LET S == control_successes + treatment_successes
    IN  S = 0 \/ S = control_n + treatment_n

\* z_stat = (p2 - p1) / pooled_se and its p-value for the alternative:
\* <<sign of z, z^2 in units of 10^-6, p>>, or the error of the division.
ZStatistic(control_successes, control_n, treatment_successes, treatment_n, alternative) ==
    LET S  == control_successes + treatment_successes
        N  == control_n + treatment_n
        D  == treatment_successes * control_n - control_successes * treatment_n
        sq == FracMul(<<D * D, control_n * treatment_n>>, <<N, S * (N - S)>>)
        x  == FloorMicro(sq[1], sq[2])
        p  == IF alternative = "two-sided"
              THEN IF D = 0 THEN One ELSE ChiSquareSF(x)
              ELSE IF alternative = "larger" THEN NormalSF(x, Sign(D))
              ELSE NormalSF(x, -Sign(D))
    IN  IF S * (N - S) = 0 THEN ZeroDivisionError
        ELSE [kind |-> "value", sign |-> Sign(D), square |-> x, p_value |-> p]

\* math.sqrt(p * (1 - p)) if 0 < p < 1 else 0, in units of 1/10000
BernoulliStd(s, n) == IF 0 < s /\ s < n THEN SqrtFixed(<<s * (n - s), n * n>>) ELSE 0

\* The fields both proportion tests fill in the same way from the counts,
\* the statistic and the p-value.
ProportionFields(test_type, control_successes, control_n, treatment_successes, treatment_n, alpha, confidence_level, statistic, p_value, ci) ==
    LET p1   == <<control_successes, control_n>>
        p2   == <<treatment_successes, treatment_n>>
        h    == cohens_h(p1, p2)
        lift == IF control_successes > 0 THEN Some(relative_lift(p1, p2)) ELSE None
    IN  IF h.kind = "error" THEN h
        ELSE [kind |-> "value",
              test_type |-> test_type,
              control_mean |-> p1,
              treatment_mean |-> p2,
              control_std |-> BernoulliStd(control_successes, control_n),
              treatment_std |-> BernoulliStd(treatment_successes, treatment_n),
              control_n |-> control_n,
              treatment_n |-> treatment_n,
              statistic |-> statistic,
              p_value |-> p_value,
              confidence_interval_lower |-> ci.lower,
              confidence_interval_upper |-> ci.upper,
              confidence_level |-> confidence_level,
              effect_size |-> absolute_difference(p1, p2).value,
              relative_effect |-> IF lift.some THEN Some(lift.value.value) ELSE None,
              statistically_significant |-> FLess(p_value, Num(alpha)),
              practical_significance |-> HAtLeast(p1, p2, 2000)]

\* two_proportion_ztest dividing by the pooled standard error whatever it is
two_proportion_ztest_Unguarded(control_successes, control_n, treatment_successes, treatment_n, alpha, confidence_level, alternative, nan_in_range) ==
    IF control_n <= 0 \/ treatment_n <= 0 THEN Raise("Sample sizes must be positive")
    ELSE IF control_successes < 0 \/ treatment_successes < 0
    THEN Raise("Successes cannot be negative")
    ELSE IF control_successes > control_n \/ treatment_successes > treatment_n
    THEN Raise("Successes cannot exceed sample size")
    ELSE LET z  == ZStatistic(control_successes, control_n,
                              treatment_successes, treatment_n, alternative)
             ci == difference_confidence_interval_proportions(
                       control_successes, control_n, treatment_successes, treatment_n,
                       confidence_level)
         IN  IF z.kind = "error" THEN z
             ELSE IF ci.kind = "error" THEN ci
             ELSE LET fields == ProportionFields("two_proportion_ztest",
                                    control_successes, control_n,
                                    treatment_successes, treatment_n,
                                    alpha, confidence_level,
                                    Num(z.sign * SqrtMicro(z.square)), Num(z.p_value), ci)
                  IN  IF fields.kind = "error" THEN fields
                      ELSE StatisticalTestResultSchema(fields, nan_in_range)

\* two_proportion_ztest(control_successes, control_n, treatment_successes,
\*                      treatment_n, alpha, confidence_level, alternative)
two_proportion_ztest(control_successes, control_n, treatment_successes, treatment_n, alpha, confidence_level, alternative, nan_in_range) ==
    IF control_n <= 0 \/ treatment_n <= 0 THEN Raise("Sample sizes must be positive")
    ELSE IF control_successes < 0 \/ treatment_successes < 0
    THEN Raise("Successes cannot be negative")
    ELSE IF control_successes > control_n \/ treatment_successes > treatment_n
    THEN Raise("Successes cannot exceed sample size")
    ELSE LET z  == IF PooledSEZero(control_successes, control_n,
                                   treatment_successes, treatment_n)
                   THEN [kind |-> "value", sign |-> 0, square |-> 0, p_value |-> One]
                   ELSE ZStatistic(control_successes, control_n,
                                   treatment_successes, treatment_n, alternative)
             ci == difference_confidence_interval_proportions(
                       control_successes, control_n, treatment_successes, treatment_n,
                       confidence_level)
         IN  IF z.kind = "error" THEN z
             ELSE IF ci.kind = "error" THEN ci
             ELSE LET fields == ProportionFields("two_proportion_ztest",
                                    control_successes, control_n,
                                    treatment_successes, treatment_n,
                                    alpha, confidence_level,
                                    Num(z.sign * SqrtMicro(z.square)), Num(z.p_value), ci)
                  IN  IF fields.kind = "error" THEN fields
                      ELSE StatisticalTestResultSchema(fields, nan_in_range)

\* stats.chi2_contingency on [[f1, s1], [f2, s2]] (one degree of freedom,
\* Yates' correction): an error on a negative cell or a zero expected
\* frequency, else the statistic
\*   N * max(2 |f1 s2 - s1 f2| - N, 0)^2 / (4 * r1 * r2 * c1 * c2)
\* in units of 10^-6 and its p-value.
chi2_contingency(f1, s1, f2, s2) ==
    LET N  == f1 + s1 + f2 + s2
        S  == s1 + s2
        D  == Abs(f1 * s2 - s1 * f2)
        M  == IF 2 * D > N THEN 2 * D - N ELSE 0
        sq == FracMul(<<M * M, 4 * (f1 + s1) * (f2 + s2)>>, <<N, S * (N - S)>>)
        x  == FloorMicro(sq[1], sq[2])
    IN  IF f1 < 0 \/ s1 < 0 \/ f2 < 0 \/ s2 < 0
        THEN Raise("All values in observed must be nonnegative.")
        ELSE IF S = 0 \/ S = N
        THEN Raise("The internally computed table of expected frequencies has a zero element")
        ELSE [kind |-> "value", chi2 |-> x, p_value |-> ChiSquareSF(x)]

\* chi_square_test(control_successes, control_n, treatment_successes,
\*                 treatment_n, alpha, confidence_level)
chi_square_test(control_successes, control_n, treatment_successes, treatment_n, alpha, confidence_level, nan_in_range) ==
    IF control_n <= 0 \/ treatment_n <= 0 THEN Raise("Sample sizes must be positive")
    ELSE LET test == chi2_contingency(control_n - control_successes, control_successes,
                                      treatment_n - treatment_successes, treatment_successes)
             ci   == difference_confidence_interval_proportions(
                         control_successes, control_n, treatment_successes, treatment_n,
                         confidence_level)
         IN  IF test.kind = "error" THEN test
             ELSE IF ci.kind = "error" THEN ci
             ELSE LET fields == ProportionFields("chi_square_test",
                                    control_successes, control_n,
                                    treatment_successes, treatment_n,
                                    alpha, confidence_level,
                                    Num(test.chi2 \div 100), Num(test.p_value), ci)
                  IN  IF fields.kind = "error" THEN fields
                      ELSE StatisticalTestResultSchema(fields, nan_in_range)

(***************************************************************************)
(* hypothesis_testing.py : tests on samples                                *)
(***************************************************************************)

\* sorted(data)
RECURSIVE Insert(_, _)
Insert(x, sorted) ==
    IF sorted = <<>> THEN <<x>>
    ELSE IF x <= Head(sorted) THEN <<x>> \o sorted
    ELSE <<Head(sorted)>> \o Insert(x, Tail(sorted))

RECURSIVE Sorted(_)
Sorted(data) == IF data = <<>> THEN <<>> ELSE Insert(Head(data), Sorted(Tail(data)))

\* np.median(data) as a fraction (Len(data) > 0)
Median(data) ==
    LET n == Len(data)
        s == Sorted(data)
    IN  IF n % 2 = 1 THEN <<s[(n + 1) \div 2], 1>> ELSE <<s[n \div 2] + s[n \div 2 + 1], 2>>

\* a fraction with a positive denominator, in lowest terms
Reduced(f) ==
    LET g == Gcd(Abs(f[1]), f[2])
    IN  <<f[1] \div g, f[2] \div g>>

\* a - b for fractions
FracSub(a, b) == Reduced(<<a[1] * b[2] - b[1] * a[2], a[2] * b[2]>>)

\* (n1 - 1) var1 + (n2 - 1) var2 over n1 + n2 - 2, times n1 * n2 * (n1 + n2 - 2)
PooledScatter(control, treatment) ==
    Scatter(control) * Len(treatment) + Scatter(treatment) * Len(control)

\* d^2 >= (c / 10)^2 for d = (mean2 - mean1) / pooled_std, pooled_std > 0
DAtLeast(control, treatment, c) ==
    LET n1 == Len(control)
        n2 == Len(treatment)
        dn == MeanDiff(control, treatment)[1]
    IN  dn * dn * (n1 + n2 - 2) * 100 >= c * c * n1 * n2 * PooledScatter(control, treatment)

\* d = (mean2 - mean1) / pooled_std (pooled_std > 0) as _interpret_cohens_d
\* reads it
DCompared(control, treatment) ==
    Compared(Sign(MeanDiff(control, treatment)[1]),
             {c * 1000 : c \in {c \in {2, 5, 8} : DAtLeast(control, treatment, c)}})

\* cohens_d handing the signed d to _interpret_cohens_d.
cohens_d_Signed(control, treatment) ==
    IF Len(control) < 2 \/ Len(treatment) < 2
    THEN Raise("Need at least 2 data points per group")
    ELSE LET n1 == Len(control)
             n2 == Len(treatment)
             dn == MeanDiff(control, treatment)[1]
             w  == PooledScatter(control, treatment)
             sq == FracMul(<<dn * dn, n1 * n2>>, <<n1 + n2 - 2, w>>)
         IN  IF w = 0 THEN EffectSizeResult(Num(0), "negligible", "Cohen's d")
             ELSE EffectSizeResult(Num(Sign(dn) * SqrtFixed(sq)),
                      interpret_cohens_d(DCompared(control, treatment)),
                      "Cohen's d")

\* cohens_d(control_data, treatment_data) with pooled=True
cohens_d(control, treatment) ==
    IF Len(control) < 2 \/ Len(treatment) < 2
    THEN Raise("Need at least 2 data points per group")
    ELSE LET n1 == Len(control)
             n2 == Len(treatment)
             dn == MeanDiff(control, treatment)[1]
             w  == PooledScatter(control, treatment)
             sq == FracMul(<<dn * dn, n1 * n2>>, <<n1 + n2 - 2, w>>)
         IN  IF w = 0 THEN EffectSizeResult(Num(0), "negligible", "Cohen's d")
             ELSE EffectSizeResult(Num(Sign(dn) * SqrtFixed(sq)),
                      interpret_cohens_d(fabs(DCompared(control, treatment))),
                      "Cohen's d")

\* practical_significance with the bar at 0.5
PracticallySignificant_Half(control, treatment) ==
    PooledScatter(control, treatment) > 0 /\ DAtLeast(control, treatment, 5)

\* abs(d.value) >= 0.2
PracticallySignificant(control, treatment) ==
    PooledScatter(control, treatment) > 0 /\ DAtLeast(control, treatment, 2)

\* 2 * stats.t.sf(abs(t), df) for t^2 = x (units of 10^-6), rounded down to
\* the levels of StudentQuantiles (and 1.0 at t = 0), and the least of the
\* levels above it.
StudentLevels == <<1000, 500, 100>>

WithinStudent(xMicro, df, i) ==
    LET crit == StudentQuantiles[IF df > Len(StudentQuantiles)
                                 THEN Len(StudentQuantiles) ELSE df][i]
    IN  IF crit > 46340 THEN Isqrt(xMicro) <= crit ELSE xMicro <= crit * crit

StudentSF(xMicro, df) ==
    IF xMicro = 0 THEN One
    ELSE LET hits == {i \in 1..3 : WithinStudent(xMicro, df, i)}
         IN  IF hits = {} THEN 0
             ELSE StudentLevels[CHOOSE i \in hits : \A j \in hits : i <= j]

StudentSFAbove(xMicro, df) ==
    LET hits == {i \in 1..3 : ~WithinStudent(xMicro, df, i)}
    IN  IF hits = {} THEN One
        ELSE StudentLevels[CHOOSE i \in hits : \A j \in hits : i >= j]

\* stats.ttest_ind(treatment, control, equal_var, alternative):
\* <<statistic, pvalue>>.  With no variance in either sample the division
\* gives nan (equal means) or an infinite statistic.
ttest_ind(treatment, control, equal_var, alternative) ==
    LET n1   == Len(control)
        n2   == Len(treatment)
        dn   == MeanDiff(control, treatment)
        se2  == IF equal_var
                THEN <<PooledScatter(control, treatment) * (n1 + n2),
                       n1 * n1 * n2 * n2 * (n1 + n2 - 2)>>
                ELSE FracSum(VarOverN(control), VarOverN(treatment))
        df   == IF equal_var THEN n1 + n2 - 2
                ELSE LET w == WelchDf(control, treatment)
                     IN  IF w.kind = "nan" THEN 1 ELSE w.v
        sgn  == IF alternative = "less" THEN -Sign(dn[1]) ELSE Sign(dn[1])
        sq   == FracMul(<<dn[1] * dn[1], dn[2] * dn[2]>>, <<se2[2], se2[1]>>)
        x    == FloorMicro(sq[1], sq[2])
    IN  IF se2[1] = 0
        THEN IF dn[1] = 0 THEN <<NaN, NaN>>
             ELSE <<IF dn[1] > 0 THEN PosInf ELSE NegInf,
                    Num(IF alternative = "two-sided" \/ sgn > 0 THEN 0 ELSE One)>>
        ELSE <<Num(Sign(dn[1]) * SqrtMicro(x)),
               Num(IF alternative = "two-sided" THEN StudentSF(x, df)
                   ELSE IF sgn >= 0 THEN StudentSF(x, df) \div 2
                   ELSE One - (StudentSFAbove(x, df) + 1) \div 2)>>

\* The fields the tests on samples fill in the same way.
SampleFields(test_type, control, treatment, control_mean, treatment_mean, alpha, confidence_level, statistic, p_value, lower, upper, effect_size) ==
    [kind |-> "value",
     test_type |-> test_type,
     control_mean |-> control_mean,
     treatment_mean |-> treatment_mean,
     control_std |-> SqrtFixed(Var(control)),
     treatment_std |-> SqrtFixed(Var(treatment)),
     control_n |-> Len(control),
     treatment_n |-> Len(treatment),
     statistic |-> statistic,
     p_value |-> p_value,
     confidence_interval_lower |-> lower,
     confidence_interval_upper |-> upper,
     confidence_level |-> confidence_level,
     effect_size |-> effect_size,
     relative_effect |-> IF Sum(control) /= 0
                         THEN Some(relative_lift(Mean(control), Mean(treatment)).value)
                         ELSE None,
     statistically_significant |-> FLess(p_value, Num(alpha)),
     practical_significance |-> PracticallySignificant(control, treatment)]

\* two_sample_ttest answering a sample that is too short with a neutral
\* result
two_sample_ttest_SilentDefault(control, treatment, alpha, confidence_level, equal_var, alternative, nan_in_range) ==
    IF Len(control) < 2 \/ Len(treatment) < 2
    THEN [kind |-> "value", test_type |-> "two_sample_ttest", statistic |-> Num(0),
          p_value |-> Num(One), statistically_significant |-> FALSE]
    ELSE LET test == ttest_ind(treatment, control, equal_var, alternative)
             ci   == difference_confidence_interval_means(control, treatment,
                                                          confidence_level, equal_var)
         IN  StatisticalTestResultSchema(
                 SampleFields(IF equal_var THEN "two_sample_ttest_equal_var"
                              ELSE "two_sample_ttest",
                              control, treatment, Mean(control), Mean(treatment),
                              alpha, confidence_level, test[1], test[2],
                              ci.lower, ci.upper,
                              absolute_difference(Mean(control), Mean(treatment)).value),
                 nan_in_range)

\* two_sample_ttest(control_data, treatment_data, alpha, confidence_level,
\*                  equal_var, alternative)
two_sample_ttest(control, treatment, alpha, confidence_level, equal_var, alternative, nan_in_range) ==
    IF Len(control) < 2 \/ Len(treatment) < 2
    THEN Raise("Need at least 2 data points per group")
    ELSE LET test == ttest_ind(treatment, control, equal_var, alternative)
             ci   == difference_confidence_interval_means(control, treatment,
                                                          confidence_level, equal_var)
         IN  StatisticalTestResultSchema(
                 SampleFields(IF equal_var THEN "two_sample_ttest_equal_var"
                              ELSE "two_sample_ttest",
                              control, treatment, Mean(control), Mean(treatment),
                              alpha, confidence_level, test[1], test[2],
                              ci.lower, ci.upper,
                              absolute_difference(Mean(control), Mean(treatment)).value),
                 nan_in_range)

\* twice the U statistic of x against y: a pair with x[i] > y[j] counts 2,
\* a tie 1
TwiceU(x, y) ==
    Sum([k \in 1..(Len(x) * Len(y)) |->
            LET i == (k - 1) \div Len(y) + 1
                j == ((k - 1) % Len(y)) + 1
            IN  IF x[i] > y[j] THEN 2 ELSE IF x[i] = y[j] THEN 1 ELSE 0])

\* the sum of t^3 - t over the groups of t tied observations
TieTerm(pooled) ==
    LET values == {pooled[i] : i \in 1..Len(pooled)}
        count(v) == Cardinality({i \in 1..Len(pooled) : pooled[i] = v})
        cube == [v \in values |-> count(v) * count(v) * count(v) - count(v)]
        RECURSIVE Total(_)
        Total(S) == IF S = {} THEN 0
                    ELSE LET v == CHOOSE v \in S : TRUE IN cube[v] + Total(S \ {v})
    IN  Total(values)

NoTies(pooled) == TieTerm(pooled) = 0

\* P(U >= u) for the U statistic of n1 among n observations without ties,
\* under the null distribution, in units of 1/10000 (twiceU = 2 u)
ExactUpperTail(twiceU, n1, n) ==
    LET picks == {A \in SUBSET (1..n) : Cardinality(A) = n1}
        RECURSIVE RankSum(_)
        RankSum(A) == IF A = {} THEN 0
                      ELSE LET r == CHOOSE r \in A : TRUE IN r + RankSum(A \ {r})
        above == {A \in picks : 2 * RankSum(A) - n1 * (n1 + 1) >= twiceU}
    IN  Fixed(Cardinality(above), Cardinality(picks))

\* P(U >= u) by the normal approximation with the tie and continuity
\* corrections: z = (u - n1 n2 / 2 - 1/2) / s, p = norm.sf(z); with every
\* observation tied s = 0 and z = -inf.
AsymptoticUpperTail(twiceU, n1, n2, ties) ==
    LET n   == n1 + n2
        num == twiceU - n1 * n2 - 1
        den == (n + 1) * n * (n - 1) - ties
        sq  == FracMul(<<num * num, n1 * n2>>, <<3 * n * (n - 1), den>>)
    IN  IF den = 0 THEN One
        ELSE NormalSF(FloorMicro(sq[1], sq[2]), Sign(num))

Min(a, b) == IF a <= b THEN a ELSE b

Max(a, b) == IF a >= b THEN a ELSE b

\* stats.mannwhitneyu(x, y, alternative, method="auto"): <<statistic,
\* pvalue>>; the method is exact without ties when a sample has at most 8
\* observations, else asymptotic.
mannwhitneyu(x, y, alternative) ==
    LET n1 == Len(x)
        n2 == Len(y)
        U1 == TwiceU(x, y)
        U2 == 2 * n1 * n2 - U1
        U  == IF alternative = "greater" THEN U1
              ELSE IF alternative = "less" THEN U2
              ELSE Max(U1, U2)
        tail == IF NoTies(x \o y) /\ (n1 <= 8 \/ n2 <= 8)
                THEN ExactUpperTail(U, n1, n1 + n2)
                ELSE AsymptoticUpperTail(U, n1, n2, TieTerm(x \o y))
    IN  <<Num((U1 * One) \div 2),
          Num(IF alternative = "two-sided" THEN Min(2 * tail, One) ELSE tail)>>

\* mann_whitney_u taking the effect size from the medians it reports.
mann_whitney_u_MedianEffect(control, treatment, alpha, confidence_level, alternative, nan_in_range) ==
    IF Len(control) < 2 \/ Len(treatment) < 2
    THEN Raise("Need at least 2 data points per group")
    ELSE LET test == mannwhitneyu(treatment, control, alternative)
             ci   == difference_confidence_interval_means(control, treatment,
                                                          confidence_level, FALSE)
         IN  StatisticalTestResultSchema(
                 SampleFields("mann_whitney_u", control, treatment,
                              Median(control), Median(treatment),
                              alpha, confidence_level, test[1], test[2],
                              ci.lower, ci.upper,
                              absolute_difference(Median(control), Median(treatment)).value),
                 nan_in_range)

\* mann_whitney_u(control_data, treatment_data, alpha, confidence_level,
\*                alternative)
mann_whitney_u(control, treatment, alpha, confidence_level, alternative, nan_in_range) ==
    IF Len(control) < 2 \/ Len(treatment) < 2
    THEN Raise("Need at least 2 data points per group")
    ELSE LET test == mannwhitneyu(treatment, control, alternative)
             ci   == difference_confidence_interval_means(control, treatment,
                                                          confidence_level, FALSE)
         IN  StatisticalTestResultSchema(
                 SampleFields("mann_whitney_u", control, treatment,
                              Median(control), Median(treatment),
                              alpha, confidence_level, test[1], test[2],
                              ci.lower, ci.upper,
                              absolute_difference(Mean(control), Mean(treatment)).value),
                 nan_in_range)

\* stat_func = np.mean if statistic == "mean" else np.median
StatFunc(statistic, data) == IF statistic = "mean" THEN Reduced(Mean(data)) ELSE Reduced(Median(data))

\* the observations of the positions A of a sample, in order
Pick(data, A) == SelectSeq([i \in 1..Len(data) |-> IF i \in A THEN <<data[i]>> ELSE <<>>],
                           LAMBDA c : c /= <<>>)

Unwrap(cells) == [i \in 1..Len(cells) |-> cells[i][1]]

\* The values one rng.permutation(pooled) can give to
\* stat_func(perm[n1:]) - stat_func(perm[:n1])
NullDiffs(control, treatment, statistic) ==
    LET pooled == control \o treatment
        n      == Len(pooled)
    IN  {FracSub(StatFunc(statistic, Unwrap(Pick(pooled, (1..n) \ A))),
                 StatFunc(statistic, Unwrap(Pick(pooled, A)))) :
            A \in {B \in SUBSET (1..n) : Cardinality(B) = Len(control)}}

\* The values stat_func takes on rng.choice(data, size=n, replace=True)
ResampleStats(data, statistic) ==
    {StatFunc(statistic, [i \in 1..Len(data) |-> data[draw[i]]]) :
        draw \in [1..Len(data) -> 1..Len(data)]}

\* The values one pair of resamples can give to
\* stat_func(boot_treatment) - stat_func(boot_control)
BootDiffs(control, treatment, statistic) ==
    {FracSub(t, c) : t \in ResampleStats(treatment, statistic),
                     c \in ResampleStats(control, statistic)}

FracAbs(f) == <<Abs(f[1]), f[2]>>

FracLeq(a, b) == a[1] * b[2] <= b[1] * a[2]

\* np.percentile(values, q) for q = 100 * level / (2 * One): the linear
\* interpolation between the order statistics around position
\* (len - 1) * q / 100; values are in units of 1/10000.
percentile(values, level) ==
    LET v   == Sorted(values)
        pos == level * (Len(v) - 1)
        i   == pos \div (2 * One) + 1
        r   == pos % (2 * One)
    IN  IF r = 0 THEN v[i] ELSE v[i] + ((v[i + 1] - v[i]) * r) \div (2 * One)

\* bootstrap_test taking its p-value from the differences of the resampling
\* loop.
bootstrap_test_OneLoop(control, treatment, n_bootstrap, alpha, confidence_level, statistic, random_state, draws, nan_in_range) ==
    IF Len(control) < 2 \/ Len(treatment) < 2
    THEN Raise("Need at least 2 data points per group")
    ELSE LET observed_diff == FracSub(StatFunc(statistic, treatment),
                                      StatFunc(statistic, control))
             hits == {i \in 1..n_bootstrap :
                         FracLeq(FracAbs(observed_diff), FracAbs(draws.boot_diffs[i]))}
             p_value == Num(Fixed(Cardinality(hits), n_bootstrap))
             boot == [i \in 1..n_bootstrap |->
                         Fixed(draws.boot_diffs[i][1], draws.boot_diffs[i][2])]
         IN  IF confidence_level > One \/ confidence_level < -One
             THEN Raise("Percentiles must be in the range [0, 100]")
             ELSE StatisticalTestResultSchema(
                      SampleFields("bootstrap_" \o statistic, control, treatment,
                                   StatFunc(statistic, control), StatFunc(statistic, treatment),
                                   alpha, confidence_level,
                                   Num(Fixed(observed_diff[1], observed_diff[2])), p_value,
                                   Num(percentile(boot, One - confidence_level)),
                                   Num(percentile(boot, One + confidence_level)),
                                   observed_diff),
                      nan_in_range)

\* bootstrap_test(control_data, treatment_data, n_bootstrap, alpha,
\*                confidence_level, statistic, random_state).  The generator's
\* output is the argument draws: null_diffs and boot_diffs, the n_bootstrap
\* differences of the permutation loop and of the resampling loop.
bootstrap_test(control, treatment, n_bootstrap, alpha, confidence_level, statistic, random_state, draws, nan_in_range) ==
    IF Len(control) < 2 \/ Len(treatment) < 2
    THEN Raise("Need at least 2 data points per group")
    ELSE LET observed_diff == FracSub(StatFunc(statistic, treatment),
                                      StatFunc(statistic, control))
             hits == {i \in 1..n_bootstrap :
                         FracLeq(FracAbs(observed_diff), FracAbs(draws.null_diffs[i]))}
             p_value == Num(Fixed(Cardinality(hits), n_bootstrap))
             boot == [i \in 1..n_bootstrap |->
                         Fixed(draws.boot_diffs[i][1], draws.boot_diffs[i][2])]
         IN  IF confidence_level > One \/ confidence_level < -One
             THEN Raise("Percentiles must be in the range [0, 100]")
             ELSE StatisticalTestResultSchema(
                      SampleFields("bootstrap_" \o statistic, control, treatment,
                                   StatFunc(statistic, control), StatFunc(statistic, treatment),
                                   alpha, confidence_level,
                                   Num(Fixed(observed_diff[1], observed_diff[2])), p_value,
                                   Num(percentile(boot, One - confidence_level)),
                                   Num(percentile(boot, One + confidence_level)),
                                   observed_diff),
                      nan_in_range)

(***************************************************************************)
(* metrics.py : continuous metrics                                         *)
(*                                                                         *)
(* metric_value is None when missing and Some(x) otherwise; the values of  *)
(* the users are fractions <<num, den>>, mean and std floats.              *)
(***************************************************************************)

\* One row of the events DataFrame with its metric_value.
MetricRow(u, v, e, m) == [user_id |-> u, variant_name |-> v, event_type |-> e, metric_value |-> m]

\* ContinuousMetric(mean=..., std=..., count=..., values=..., variant_name=...)
ContinuousMetric(mean, std, count, values, variant_name) ==
    [kind |-> "value", mean |-> mean, std |-> std, count |-> count, values |-> values,
     variant_name |-> variant_name]

\* the metric values of rows without a missing one, as a sequence
MetricCol(rows) == [i \in 1..Len(rows) |-> rows[i].metric_value.value]

\* agg_func: the aggregation of the dictionary, "mean" for any other name
AggFunc(aggregation) ==
    IF aggregation \in {"mean", "sum", "max", "min"} THEN aggregation ELSE "mean"

\* Series.agg(agg_func) on the values of one group (not empty)
Agg(agg_func, vals) ==
    IF agg_func = "mean" THEN <<Sum(vals), Len(vals)>>
    ELSE IF agg_func = "sum" THEN <<Sum(vals), 1>>
    ELSE IF agg_func = "max" THEN <<Sorted(vals)[Len(vals)], 1>>
    ELSE <<Sorted(vals)[1], 1>>

\* groupby(user_col)[metric_col].agg(agg_func).values: one value per user,
\* the users in ascending order; groupby drops the rows whose user_id is
\* missing
UserValues(rows, agg_func) ==
    LET keys == Sorted(SelectSeq(Unique(UserCol(rows)), LAMBDA u : u /= NullUser))
    IN  [k \in 1..Len(keys) |->
            Agg(agg_func, MetricCol(SelectSeq(rows, LAMBDA r : r.user_id = keys[k])))]

\* the sum of a sequence of fractions
RECURSIVE FracTotal(_)
FracTotal(values) ==
    IF values = <<>> THEN <<0, 1>> ELSE FracSum(Head(values), FracTotal(Tail(values)))

\* float(np.mean(values)): nan (with a warning) for an empty array
MeanOfValues(values) ==
    IF values = <<>> THEN NaN
    ELSE Num(Fixed(FracTotal(values)[1], FracTotal(values)[2] * Len(values)))

\* np.var(values, ddof=1) for more than one value, over the common
\* denominator den of the values
VarOfValues(values) ==
    LET den == FracTotal([i \in 1..Len(values) |-> <<0, values[i][2]>>])[2]
        num == [i \in 1..Len(values) |-> values[i][1] * (den \div values[i][2])]
    IN  <<Scatter(num), Len(values) * (Len(values) - 1) * den * den>>

\* aggregate_continuous_metric with one value per qualifying row instead of
\* one per user.
aggregate_continuous_metric_PerRow(events, variant_name, metric_event, aggregation) ==
    LET of_variant == SelectSeq(events, LAMBDA r : r.variant_name = variant_name)
        of_event   == IF metric_event.some /\ metric_event.value /= ""
                      THEN SelectSeq(of_variant, LAMBDA r : r.event_type = metric_event.value)
                      ELSE of_variant
        variant_events == SelectSeq(of_event, LAMBDA r : r.metric_value.some)
        values == [i \in 1..Len(variant_events) |-> <<variant_events[i].metric_value.value, 1>>]
    IN  IF Len(variant_events) = 0
        THEN ContinuousMetric(Num(0), Num(0), 0, <<>>, variant_name)
        ELSE ContinuousMetric(MeanOfValues(values),
                              IF Len(values) > 1 THEN Num(SqrtFixed(VarOfValues(values)))
                              ELSE Num(0),
                              Len(values), values, variant_name)

\* aggregate_continuous_metric(events, variant_name, metric_event=...,
\* aggregation=...) with the default column names; `if metric_event:` takes
\* None and the empty string as no filter.
aggregate_continuous_metric(events, variant_name, metric_event, aggregation) ==
    LET of_variant == SelectSeq(events, LAMBDA r : r.variant_name = variant_name)
        of_event   == IF metric_event.some /\ metric_event.value /= ""
                      THEN SelectSeq(of_variant, LAMBDA r : r.event_type = metric_event.value)
                      ELSE of_variant
        variant_events == SelectSeq(of_event, LAMBDA r : r.metric_value.some)
        values == UserValues(variant_events, AggFunc(aggregation))
    IN  IF Len(variant_events) = 0
        THEN ContinuousMetric(Num(0), Num(0), 0, <<>>, variant_name)
        ELSE ContinuousMetric(MeanOfValues(values),
                              IF Len(values) > 1 THEN Num(SqrtFixed(VarOfValues(values)))
                              ELSE Num(0),
                              Len(values), values, variant_name)

(***************************************************************************)
(* Calls of the metrics module                                             *)
(***************************************************************************)

\* Longest table given to aggregate_conversion_rate.
MaxRows == 3

\* Largest number of exposed users of one variant in a validated table.
MaxGroup == 7

\* Largest number of further rows of a validated table.
MaxExtra == 2

\* Largest group size given to detect_sample_ratio_mismatch, apart from
\* the sizes of the documented scenarios.
MaxCount == 12

SeqsUpTo(S, n) == UNION {[1..k -> S] : k \in 0..n}

AllColumns == {"user_id", "variant_name", "event_type", "event_timestamp", "metric_value"}

\* The user ids of aggregated tables are not missing.
AggRows == {Row(u, v, e) : u \in {1, 2, 3}, v \in {"control", "treatment"}, e \in EventTypes}

AggregateCalls ==
    {[events |-> Table(AllColumns, rows), variant_name |-> v] :
        rows \in SeqsUpTo(AggRows, MaxRows), v \in {"control", "treatment", "holdout"}}

\* nc exposed control users 1..nc, then nt exposed treatment users.
BaseRows(nc, nt) ==
    [i \in 1..(nc + nt) |->
        IF i <= nc THEN Row(i, "control", "exposure") ELSE Row(i, "treatment", "exposure")]

ExtraRows == {Row(u, v, e) : u \in {NullUser, 1}, v \in {"control", "holdout", NullVariant},
                             e \in EventTypes}

MinSampleSizes == {3, 100}

ColumnSets ==
    {AllColumns, AllColumns \ {"event_type"}, AllColumns \ {"user_id", "event_timestamp"},
     {"user_id"}, {}}

RequiredChoices ==
    {None, Some(<<"event_timestamp", "user_id", "event_type">>), Some(<<"user_id">>)}

ValidateCalls ==
    {[events |-> Table(AllColumns, BaseRows(nc, nt) \o extra), required_columns |-> None,
      min_sample_size |-> m, control_name |-> "control", treatment_name |-> "treatment"] :
        nc \in 0..3, nt \in 0..MaxGroup, extra \in SeqsUpTo(ExtraRows, MaxExtra),
        m \in MinSampleSizes}
    \cup
    {[events |-> Table(cols, BaseRows(nc, nt)), required_columns |-> req,
      min_sample_size |-> 100, control_name |-> "control", treatment_name |-> "treatment"] :
        nc \in 0..1, nt \in 0..1, cols \in ColumnSets, req \in RequiredChoices}

ExpectedRatios == {<<1, 2>>, <<3, 10>>}

SRMAlphas == {100, 500, 1000}

\* the calls of the documented scenarios and of the unit tests
SRMScenarios ==
    {<<55000, 45000, <<1, 2>>>>, <<50000, 50000, <<1, 2>>>>, <<30000, 70000, <<3, 10>>>>,
     <<510, 490, <<1, 2>>>>}

SRMCalls ==
    {[control_n |-> c, treatment_n |-> t, expected_ratio |-> r, alpha |-> al] :
        c \in 0..MaxCount, t \in 0..MaxCount, r \in ExpectedRatios, al \in SRMAlphas}
    \cup
    {[control_n |-> sc[1], treatment_n |-> sc[2], expected_ratio |-> sc[3], alpha |-> al] :
        sc \in SRMScenarios, al \in SRMAlphas}

\* Longest table given to aggregate_continuous_metric.
MaxMetricRows == 3

\* The rows of those tables: control rows with and without a user, of two
\* event types, with and without a metric value, and one treatment row.
ContinuousRows ==
    {MetricRow(u, "control", e, m) :
        u \in {NullUser, 1, 2}, e \in {"exposure", "purchase"}, m \in {None, Some(1), Some(3)}}
    \cup {MetricRow(1, "treatment", "purchase", Some(3))}

\* An order of the rows in which the users do not come sorted.
RowRank(r) ==
    (IF r.metric_value.some THEN 100 * r.metric_value.value ELSE 0)
        + (IF r.event_type = "purchase" THEN 50 ELSE 0)
        + (IF r.variant_name = "control" THEN 10 ELSE 0)
        + (2 - r.user_id)

\* Tables that differ only in the order of their rows are given once.
ContinuousTables ==
    {rows \in SeqsUpTo(ContinuousRows, MaxMetricRows) :
        \A i \in 1..(Len(rows) - 1) : RowRank(rows[i]) <= RowRank(rows[i + 1])}

ContinuousCalls ==
    {[events |-> Table(AllColumns, rows), variant_name |-> "control", metric_event |-> ev,
      aggregation |-> ag] :
        rows \in ContinuousTables, ev \in {None, Some("purchase")},
        ag \in {"mean", "sum", "max", "min", "median"}}

\* A call is chosen: the function and its arguments.
Called(f, calls) ==
    /\ pc = "call"
    /\ op = f
    /\ args \in calls
    /\ ret = NoRet
    /\ threads = <<>>
    /\ build = <<>>
    /\ frame = <<>>
    /\ messages = <<>>
    /\ sent = <<>>
    /\ log = <<>>

AggregateConversionRate ==
    /\ pc = "call"
    /\ op = "aggregate_conversion_rate"
    /\ ret' = aggregate_conversion_rate(args.events.rows, args.variant_name)
    /\ pc' = "done"
    /\ UNCHANGED <<op, args, threads, build, frame, messages, sent, log>>

AggregateContinuousMetric ==
    /\ pc = "call"
    /\ op = "aggregate_continuous_metric"
    /\ ret' = aggregate_continuous_metric(args.events.rows, args.variant_name,
                                          args.metric_event, args.aggregation)
    /\ pc' = "done"
    /\ UNCHANGED <<op, args, threads, build, frame, messages, sent, log>>

DetectSampleRatioMismatch ==
    /\ pc = "call"
    /\ op = "detect_sample_ratio_mismatch"
    /\ ret' = detect_sample_ratio_mismatch(args.control_n, args.treatment_n,
                                           args.expected_ratio, args.alpha)
    /\ pc' = "done"
    /\ UNCHANGED <<op, args, threads, build, frame, messages, sent, log>>

ValidateExperimentData ==
    /\ pc = "call"
    /\ op = "validate_experiment_data"
    /\ ret' = validate_experiment_data(args.events, args.required_columns,
                                       args.min_sample_size, args.control_name,
                                       args.treatment_name)
    /\ pc' = "done"
    /\ UNCHANGED <<op, args, threads, build, frame, messages, sent, log>>

MetricsInit ==
    \/ Called("aggregate_conversion_rate", AggregateCalls)
    \/ Called("aggregate_continuous_metric", ContinuousCalls)
    \/ Called("detect_sample_ratio_mismatch", SRMCalls)
    \/ Called("validate_experiment_data", ValidateCalls)

MetricsNext ==
    \/ AggregateConversionRate
    \/ AggregateContinuousMetric
    \/ DetectSampleRatioMismatch
    \/ ValidateExperimentData

SpecMetrics == MetricsInit /\ [][MetricsNext]_vars

(***************************************************************************)
(* A session of the metrics engine                                         *)
(*                                                                         *)
(* The caller holds one events DataFrame, frame, and calls the functions   *)
(* of metrics.py on it one after another.  Each call is one step: it       *)
(* computes the outcome from the DataFrame it is handed, leaves the        *)
(* DataFrame as FrameAfter says, and is recorded in log.                   *)
(***************************************************************************)

\* calculate_experiment_summary(events) with the default names, on a table
\* that is not empty; event_timestamp is a day number, and the dictionary
\* event_types and the list of variants are kept as a function and a set.
calculate_experiment_summary(rows) ==
    LET days        == {rows[i].event_timestamp : i \in 1..Len(rows)}
        min_date    == CHOOSE x \in days : \A y \in days : x <= y
        max_date    == CHOOSE x \in days : \A y \in days : x >= y
        sizes       == get_variant_sample_sizes(rows)
        control_n   == IF "control" \in DOMAIN sizes THEN sizes["control"] ELSE 0
        treatment_n == IF "treatment" \in DOMAIN sizes THEN sizes["treatment"] ELSE 0
        srm         == detect_sample_ratio_mismatch(control_n, treatment_n,
                                                    DefaultExpectedRatio, DefaultSRMAlpha)
        types       == {rows[i].event_type : i \in 1..Len(rows)}
    IN  [kind |-> "value",
         start_date |-> min_date, end_date |-> max_date,
         duration_days |-> (max_date - min_date) + 1,
         total_users |-> control_n + treatment_n,
         control_users |-> control_n, treatment_users |-> treatment_n,
         total_events |-> Len(rows),
         event_types |-> [e \in types |->
                             Cardinality({i \in 1..Len(rows) : rows[i].event_type = e})],
         srm_detected |-> srm.is_srm_detected, srm_p_value |-> srm.p_value,
         variants |-> DOMAIN sizes]

\* The caller's DataFrame after f has run on it, with the rows of a missing
\* user_id dropped in place.
FrameAfter_DroppedInPlace(f, events) ==
    IF f = "validate_experiment_data"
    THEN [events EXCEPT !.rows = SelectSeq(@, LAMBDA r : r.user_id /= NullUser)]
    ELSE events

\* The caller's DataFrame after the function f has run on it: the five
\* functions read events by boolean indexing, groupby, unique, min, max,
\* len, isna and value_counts, which build new objects, and assign to no
\* column, row or attribute of it.
FrameAfter(f, events) == events

\* Longest DataFrame of a session, and the number of its calls.
MaxFrameRows == 2

MaxCalls == 2

\* The rows of a session: with and without a user, of both variants,
\* exposures without a metric value and conversions with one, on two days.
FrameRows ==
    {[user_id |-> u, variant_name |-> v, event_type |-> e,
      metric_value |-> IF e = "conversion" THEN Some(3) ELSE None, event_timestamp |-> ts] :
        u \in {NullUser, 1}, v \in {"control", "treatment"}, e \in EventTypes, ts \in {1, 2}}

\* An order of those rows.
FrameRowRank(r) ==
    (IF r.event_type = "conversion" THEN 8 ELSE 0) + (IF r.variant_name = "control" THEN 4 ELSE 0)
        + 2 * (2 - r.event_timestamp) + r.user_id

\* DataFrames that differ only in the order of their rows are given once.
Frames ==
    {Table(AllColumns, rows) : rows \in
        {s \in SeqsUpTo(FrameRows, MaxFrameRows) :
            /\ Len(s) > 0
            /\ \A i \in 1..(Len(s) - 1) : FrameRowRank(s[i]) <= FrameRowRank(s[i + 1])}}

\* One call f(a) of the session returns or raises r.
EngineCall(f, a, r) ==
    /\ pc = "session"
    /\ Len(log) < MaxCalls
    /\ op' = f
    /\ args' = a
    /\ ret' = r
    /\ frame' = FrameAfter(f, frame)
    /\ log' = Append(log, [op |-> f, args |-> a, ret |-> r])
    /\ UNCHANGED <<pc, threads, build, messages, sent>>

CallAggregateConversionRate ==
    \E v \in {"control", "treatment"} :
        EngineCall("aggregate_conversion_rate", [events |-> frame, variant_name |-> v],
                   aggregate_conversion_rate(frame.rows, v))

CallAggregateContinuousMetric ==
    \E v \in {"control", "treatment"} :
        EngineCall("aggregate_continuous_metric",
                   [events |-> frame, variant_name |-> v, metric_event |-> None,
                    aggregation |-> "mean"],
                   aggregate_continuous_metric(frame.rows, v, None, "mean"))

CallGetVariantSampleSizes ==
    EngineCall("get_variant_sample_sizes", [events |-> frame],
               [kind |-> "value", value |-> get_variant_sample_sizes(frame.rows)])

CallCalculateExperimentSummary ==
    EngineCall("calculate_experiment_summary", [events |-> frame],
               calculate_experiment_summary(frame.rows))

CallValidateExperimentData ==
    \E m \in {1, 100} :
        EngineCall("validate_experiment_data",
                   [events |-> frame, required_columns |-> None, min_sample_size |-> m,
                    control_name |-> "control", treatment_name |-> "treatment"],
                   validate_experiment_data(frame, None, m, "control", "treatment"))

EngineInit ==
    /\ pc = "session"
    /\ op = "none"
    /\ args = <<>>
    /\ ret = NoRet
    /\ threads = <<>>
    /\ build = <<>>
    /\ frame \in Frames
    /\ messages = <<>>
    /\ sent = <<>>
    /\ log = <<>>

EngineNext ==
    \/ CallAggregateConversionRate
    \/ CallAggregateContinuousMetric
    \/ CallGetVariantSampleSizes
    \/ CallCalculateExperimentSummary
    \/ CallValidateExperimentData

SpecEngine == EngineInit /\ [][EngineNext]_vars

(***************************************************************************)
(* agents/base.py : a session of one agent                                 *)
(*                                                                         *)
(* messages is self.messages, the conversation history.  A message         *)
(* carries, beside its role and content, the number of the call of the     *)
(* session that created it.  The language model is outside the             *)
(* repository: each invocation of it either returns a response or raises,  *)
(* and which is chosen freely.                                             *)
(***************************************************************************)

SystemMessage(content) == [role |-> "system", content |-> content, call |-> 0]

HumanMessage(content, n) == [role |-> "human", content |-> content, call |-> n]

\* the response self.llm.invoke returns in call n
AIMessage(content, n) == [role |-> "ai", content |-> content, call |-> n]

\* raise LLMError(...)
LLMError(msg) == [kind |-> "error", error |-> "LLMError", message |-> msg]

\* _build_messages(user_input, context) of call n: the system prompt, the
\* context when one is given, the conversation history, the user input
build_messages(user_input, context, history, n) ==
    <<SystemMessage("system_prompt")>>
        \o (IF context.some THEN <<SystemMessage("Context:" \o context.value)>> ELSE <<>>)
        \o history
        \o <<HumanMessage(user_input, n)>>

\* self.messages after invoke that stores the user input before it calls
\* the language model.
InvokeHistory_StoredFirst(history, user_input, responds, n) ==
    IF responds THEN history \o <<HumanMessage(user_input, n), AIMessage("response", n)>>
    ELSE Append(history, HumanMessage(user_input, n))

\* self.messages after invoke (lines 86-101): the user input and the
\* response are appended once the language model has responded
InvokeHistory(history, user_input, responds, n) ==
    IF responds THEN history \o <<HumanMessage(user_input, n), AIMessage("response", n)>>
    ELSE history

\* self.messages after invoke_structured (lines 125-138): only the user
\* input is appended
StructuredHistory(history, user_input, responds, n) ==
    IF responds THEN Append(history, HumanMessage(user_input, n)) ELSE history

\* clear_history leaving the first exchange in place.
Cleared_KeepFirst(history) == SubSeq(history, 1, IF Len(history) < 2 THEN Len(history) ELSE 2)

\* self.messages after self.messages.clear()
Cleared(history) == <<>>

\* Number of calls of a session of an agent.
MaxAgentCalls == 3

UserInputs == {"goal", "follow-up"}

Contexts == {None, Some("- key: value")}

\* One call of the session is recorded with its outcome and the history
\* before it.
AgentCall(f, r, after, list) ==
    /\ pc = "agent"
    /\ Len(log) < MaxAgentCalls
    /\ op' = f
    /\ ret' = r
    /\ messages' = after
    /\ sent' = list
    /\ log' = Append(log, [op |-> f, ret |-> r, before |-> messages])
    /\ UNCHANGED <<pc, args, threads, build, frame>>

\* invoke(user_input, context)
Invoke ==
    \E user_input \in UserInputs, context \in Contexts, responds \in BOOLEAN :
        LET n == Len(log) + 1
        IN  AgentCall("invoke",
                      IF responds THEN PyValue("response")
                      ELSE LLMError("Failed to get response from LLM"),
                      InvokeHistory(messages, user_input, responds, n),
                      build_messages(user_input, context, messages, n))

\* invoke_structured(user_input, output_schema, context)
InvokeStructured ==
    \E user_input \in UserInputs, context \in Contexts, responds \in BOOLEAN :
        LET n == Len(log) + 1
        IN  AgentCall("invoke_structured",
                      IF responds THEN PyValue("structured")
                      ELSE LLMError("Failed to get structured response from LLM"),
                      StructuredHistory(messages, user_input, responds, n),
                      build_messages(user_input, context, messages, n))

\* clear_history()
ClearHistory == AgentCall("clear_history", PyValue("None"), Cleared(messages), sent)

\* get_history(): a copy of the history
GetHistory == AgentCall("get_history", PyValue(messages), messages, sent)

\* The agent has been constructed: self.messages = [] (line 43).
AgentInit ==
    /\ pc = "agent"
    /\ op = "__init__"
    /\ args = <<>>
    /\ ret = NoRet
    /\ threads = <<>>
    /\ build = <<>>
    /\ frame = <<>>
    /\ messages = <<>>
    /\ sent = <<>>
    /\ log = <<>>

AgentNext ==
    \/ Invoke
    \/ InvokeStructured
    \/ ClearHistory
    \/ GetHistory

SpecAgent == AgentInit /\ [][AgentNext]_vars

(***************************************************************************)
(* Calls of the inference modules: confidence intervals and tests          *)
(***************************************************************************)

\* Largest group size given to the tests on proportions, apart from the
\* documented scenarios.
MaxN == 3

\* Longest sample given to the tests on samples.
MaxSample == 3

\* <<alpha, confidence_level>> in units of 1/10000: the defaults, a stricter
\* pair, and pairs with one of the two on or beyond the ends of (0, 1)
Levels ==
    {<<500, 9500>>, <<100, 9900>>, <<15000, 9500>>, <<-500, 9500>>, <<10000, 9500>>,
     <<500, 15000>>, <<500, 0>>, <<500, 10000>>, <<500, -9500>>}

Confidences == {l[2] : l \in Levels}

\* <<control_successes, control_n, treatment_successes, treatment_n>>
Counts ==
    {<<s1, n1, s2, n2>> : s1 \in -1..(MaxN + 1), n1 \in 0..MaxN,
                          s2 \in -1..(MaxN + 1), n2 \in 0..MaxN}
    \cup {<<0, 100, 0, 100>>, <<100, 100, 100, 100>>, <<0, 100, 0, 50>>}

\* the samples: sorted arrays of small numbers, and two without ties
Samples ==
    {d \in SeqsUpTo(0..2, MaxSample) : \A i \in 1..(Len(d) - 1) : d[i] <= d[i + 1]}
    \cup {<<1, 3>>, <<4, 5, 6>>}

ZTestCalls ==
    {[control_successes |-> c[1], control_n |-> c[2], treatment_successes |-> c[3],
      treatment_n |-> c[4], alpha |-> l[1], confidence_level |-> l[2], alternative |-> alt] :
        c \in Counts, l \in Levels, alt \in {"two-sided", "larger", "smaller"}}

ChiSquareCalls ==
    {[control_successes |-> c[1], control_n |-> c[2], treatment_successes |-> c[3],
      treatment_n |-> c[4], alpha |-> l[1], confidence_level |-> l[2]] :
        c \in Counts, l \in Levels}

TTestCalls ==
    {[control_data |-> c, treatment_data |-> t, alpha |-> l[1], confidence_level |-> l[2],
      equal_var |-> ev, alternative |-> alt] :
        c \in Samples, t \in Samples, l \in Levels, ev \in BOOLEAN,
        alt \in {"two-sided", "greater", "less"}}

MannWhitneyCalls ==
    {[control_data |-> c, treatment_data |-> t, alpha |-> l[1], confidence_level |-> l[2],
      alternative |-> alt] :
        c \in Samples, t \in Samples, l \in Levels, alt \in {"two-sided", "greater", "less"}}

BootstrapCounts == {1}

\* the samples given to bootstrap_test: those of zeros and ones, and the
\* two without ties
BootstrapSamples == {d \in Samples : \A i \in 1..Len(d) : d[i] <= 1 \/ d[i] >= 3}

BootstrapLevels ==
    {<<500, 9500>>, <<15000, 9500>>, <<-500, 9500>>, <<500, 15000>>, <<500, -9500>>,
     <<500, 10000>>}

BootstrapCalls ==
    {[control_data |-> c, treatment_data |-> t, n_bootstrap |-> b, alpha |-> l[1],
      confidence_level |-> l[2], statistic |-> st, random_state |-> 42] :
        c \in BootstrapSamples, t \in BootstrapSamples, b \in BootstrapCounts,
        l \in BootstrapLevels, st \in {"mean", "median"}}

\* What the generator can produce in a call of bootstrap_test; it is not
\* consulted when a sample is too short.
Draws(a) ==
    IF Len(a.control_data) < 2 \/ Len(a.treatment_data) < 2
    THEN {[null_diffs |-> <<>>, boot_diffs |-> <<>>]}
    ELSE {[null_diffs |-> nd, boot_diffs |-> bd] :
            nd \in [1..a.n_bootstrap -> NullDiffs(a.control_data, a.treatment_data, a.statistic)],
            bd \in [1..a.n_bootstrap -> BootDiffs(a.control_data, a.treatment_data, a.statistic)]}

MeanCICalls == {[data |-> d, confidence |-> c] : d \in Samples, c \in Confidences}

ProportionCICalls ==
    {[successes |-> s, total |-> n, confidence |-> c] :
        s \in -1..(MaxN + 1), n \in 0..MaxN, c \in Confidences}

DiffProportionsCICalls ==
    {[control_successes |-> k[1], control_total |-> k[2], treatment_successes |-> k[3],
      treatment_total |-> k[4], confidence |-> c] : k \in Counts, c \in Confidences}

DiffMeansCICalls ==
    {[control_data |-> c, treatment_data |-> t, confidence |-> cf, equal_var |-> ev] :
        c \in Samples, t \in Samples, cf \in Confidences, ev \in BOOLEAN}

TwoProportionZTest ==
    /\ pc = "call"
    /\ op = "two_proportion_ztest"
    /\ \E nan_in_range \in BOOLEAN :
          ret' = two_proportion_ztest(args.control_successes, args.control_n,
                                      args.treatment_successes, args.treatment_n,
                                      args.alpha, args.confidence_level, args.alternative,
                                      nan_in_range)
    /\ pc' = "done"
    /\ UNCHANGED <<op, args, threads, build, frame, messages, sent, log>>

ChiSquareTest ==
    /\ pc = "call"
    /\ op = "chi_square_test"
    /\ \E nan_in_range \in BOOLEAN :
          ret' = chi_square_test(args.control_successes, args.control_n,
                                 args.treatment_successes, args.treatment_n,
                                 args.alpha, args.confidence_level, nan_in_range)
    /\ pc' = "done"
    /\ UNCHANGED <<op, args, threads, build, frame, messages, sent, log>>

TwoSampleTTest ==
    /\ pc = "call"
    /\ op = "two_sample_ttest"
    /\ \E nan_in_range \in BOOLEAN :
          ret' = two_sample_ttest(args.control_data, args.treatment_data, args.alpha,
                                  args.confidence_level, args.equal_var, args.alternative,
                                  nan_in_range)
    /\ pc' = "done"
    /\ UNCHANGED <<op, args, threads, build, frame, messages, sent, log>>

MannWhitneyU ==
    /\ pc = "call"
    /\ op = "mann_whitney_u"
    /\ \E nan_in_range \in BOOLEAN :
          ret' = mann_whitney_u(args.control_data, args.treatment_data, args.alpha,
                                args.confidence_level, args.alternative, nan_in_range)
    /\ pc' = "done"
    /\ UNCHANGED <<op, args, threads, build, frame, messages, sent, log>>

BootstrapTest ==
    /\ pc = "call"
    /\ op = "bootstrap_test"
    /\ \E draws \in Draws(args), nan_in_range \in BOOLEAN :
          ret' = bootstrap_test(args.control_data, args.treatment_data, args.n_bootstrap,
                                args.alpha, args.confidence_level, args.statistic,
                                args.random_state, draws, nan_in_range)
    /\ pc' = "done"
    /\ UNCHANGED <<op, args, threads, build, frame, messages, sent, log>>

MeanConfidenceInterval ==
    /\ pc = "call"
    /\ op = "mean_confidence_interval"
    /\ ret' = mean_confidence_interval(args.data, args.confidence)
    /\ pc' = "done"
    /\ UNCHANGED <<op, args, threads, build, frame, messages, sent, log>>

ProportionConfidenceInterval ==
    /\ pc = "call"
    /\ op = "proportion_confidence_interval"
    /\ \E rounding \in {-1, 0} :
          ret' = proportion_confidence_interval(args.successes, args.total, args.confidence,
                                                rounding)
    /\ pc' = "done"
    /\ UNCHANGED <<op, args, threads, build, frame, messages, sent, log>>

DifferenceConfidenceIntervalProportions ==
    /\ pc = "call"
    /\ op = "difference_confidence_interval_proportions"
    /\ ret' = difference_confidence_interval_proportions(
                  args.control_successes, args.control_total,
                  args.treatment_successes, args.treatment_total, args.confidence)
    /\ pc' = "done"
    /\ UNCHANGED <<op, args, threads, build, frame, messages, sent, log>>

DifferenceConfidenceIntervalMeans ==
    /\ pc = "call"
    /\ op = "difference_confidence_interval_means"
    /\ ret' = difference_confidence_interval_means(args.control_data, args.treatment_data,
                                                   args.confidence, args.equal_var)
    /\ pc' = "done"
    /\ UNCHANGED <<op, args, threads, build, frame, messages, sent, log>>

RelativeDifferenceConfidenceInterval ==
    /\ pc = "call"
    /\ op = "relative_difference_confidence_interval"
    /\ ret' = relative_difference_confidence_interval(
                  args.control_successes, args.control_total,
                  args.treatment_successes, args.treatment_total, args.confidence)
    /\ pc' = "done"
    /\ UNCHANGED <<op, args, threads, build, frame, messages, sent, log>>

InferenceInit ==
    \/ Called("two_proportion_ztest", ZTestCalls)
    \/ Called("chi_square_test", ChiSquareCalls)
    \/ Called("two_sample_ttest", TTestCalls)
    \/ Called("mann_whitney_u", MannWhitneyCalls)
    \/ Called("bootstrap_test", BootstrapCalls)
    \/ Called("mean_confidence_interval", MeanCICalls)
    \/ Called("proportion_confidence_interval", ProportionCICalls)
    \/ Called("difference_confidence_interval_proportions", DiffProportionsCICalls)
    \/ Called("difference_confidence_interval_means", DiffMeansCICalls)
    \/ Called("relative_difference_confidence_interval", DiffProportionsCICalls)

InferenceNext ==
    \/ TwoProportionZTest
    \/ ChiSquareTest
    \/ TwoSampleTTest
    \/ MannWhitneyU
    \/ BootstrapTest
    \/ MeanConfidenceInterval
    \/ ProportionConfidenceInterval
    \/ DifferenceConfidenceIntervalProportions
    \/ DifferenceConfidenceIntervalMeans
    \/ RelativeDifferenceConfidenceInterval

SpecInference == InferenceInit /\ [][InferenceNext]_vars

(***************************************************************************)
(* Concurrent calls of bootstrap_test                                      *)
(*                                                                         *)
(* Each caller runs the body of bootstrap_test in steps: it creates its    *)
(* generator, runs the permutation loop, runs the resampling loop, and     *)
(* builds the result.  The steps of different callers interleave freely.   *)
(***************************************************************************)

\* Number of concurrent callers.
MaxThreads == 3

\* the seeds of the generators: 42 is the random_state the seeded callers
\* pass, and the operating system's entropy gives either seed to an
\* unseeded generator
Seeds == {7, 42}

\* what the bit generator yields for one iteration of a loop
RawOutputs == {0, 1}

\* a < b for fractions with positive denominators
FracLess(a, b) == a[1] * b[2] < b[1] * a[2]

\* the element of a set of fractions an output r of the generator selects:
\* the one with r % Cardinality(S) elements below it
Nth(S, r) == CHOOSE x \in S : Cardinality({y \in S : FracLess(y, x)}) = r % Cardinality(S)

\* np.random.default_rng(random_state) ignoring the seed it is given.
default_rng_Unseeded(random_state, entropy) == [seed |-> entropy, pos |-> 0]

\* np.random.default_rng(random_state): a new generator, seeded by
\* random_state, or by fresh entropy when random_state is None
default_rng(random_state, entropy) ==
    [seed |-> IF random_state.some THEN random_state.value ELSE entropy, pos |-> 0]

\* the next output of a generator
random(rng) == build.pcg64[<<rng.seed, rng.pos + 1>>]

\* a caller that has not started
Thread(a) ==
    [pc |-> "call", args |-> a, rng |-> None, null_diffs |-> <<>>, boot_diffs |-> <<>>,
     ret |-> NoRet]

SessionCalls ==
    {[control_data |-> <<0, 1>>, treatment_data |-> <<1, 3>>, n_bootstrap |-> 1,
      alpha |-> 500, confidence_level |-> 9500, statistic |-> "mean", random_state |-> rs] :
        rs \in {None, Some(42)}}

\* Callers are interchangeable: they are numbered in the order of their
\* random_state, None first.
SeedRank(random_state) == IF random_state.some THEN random_state.value ELSE 0

\* lines 252-260: the length check and the creation of the generator
Start(i) ==
    LET a == threads[i].args
    IN  /\ threads[i].pc = "call"
        /\ IF Len(a.control_data) < 2 \/ Len(a.treatment_data) < 2
           THEN threads' = [threads EXCEPT
                               ![i].ret = Raise("Need at least 2 data points per group"),
                               ![i].pc = "done"]
           ELSE \E entropy \in Seeds :
                    threads' = [threads EXCEPT
                                   ![i].rng = default_rng(a.random_state, entropy),
                                   ![i].pc = IF a.n_bootstrap > 0 THEN "permute" ELSE "finish"]
        /\ UNCHANGED <<pc, op, args, ret, build, frame, messages, sent, log>>

\* lines 266-269: one iteration of the permutation loop
Permute(i) ==
    LET a  == threads[i].args
        nd == Nth(NullDiffs(a.control_data, a.treatment_data, a.statistic),
                  random(threads[i].rng))
    IN  /\ threads[i].pc = "permute"
        /\ threads' = [threads EXCEPT
                           ![i].null_diffs = Append(@, nd),
                           ![i].rng.pos = @ + 1,
                           ![i].pc = IF Len(threads[i].null_diffs) + 1 = a.n_bootstrap
                                     THEN "resample" ELSE "permute"]
        /\ UNCHANGED <<pc, op, args, ret, build, frame, messages, sent, log>>

\* lines 275-278: one iteration of the resampling loop
Resample(i) ==
    LET a  == threads[i].args
        bd == Nth(BootDiffs(a.control_data, a.treatment_data, a.statistic),
                  random(threads[i].rng))
    IN  /\ threads[i].pc = "resample"
        /\ threads' = [threads EXCEPT
                           ![i].boot_diffs = Append(@, bd),
                           ![i].rng.pos = @ + 1,
                           ![i].pc = IF Len(threads[i].boot_diffs) + 1 = a.n_bootstrap
                                     THEN "finish" ELSE "resample"]
        /\ UNCHANGED <<pc, op, args, ret, build, frame, messages, sent, log>>

\* lines 271-272 and 280-313: the p-value, the percentiles and the result
Finish(i) ==
    LET a == threads[i].args
    IN  /\ threads[i].pc = "finish"
        /\ \E nan_in_range \in BOOLEAN :
              threads' = [threads EXCEPT
                  ![i].ret = bootstrap_test(a.control_data, a.treatment_data, a.n_bootstrap,
                                            a.alpha, a.confidence_level, a.statistic,
                                            a.random_state,
                                            [null_diffs |-> threads[i].null_diffs,
                                             boot_diffs |-> threads[i].boot_diffs],
                                            nan_in_range),
                  ![i].pc = "done"]
        /\ UNCHANGED <<pc, op, args, ret, build, frame, messages, sent, log>>

StartCall == \E i \in DOMAIN threads : Start(i)

PermutationLoop == \E i \in DOMAIN threads : Permute(i)

ResamplingLoop == \E i \in DOMAIN threads : Resample(i)

FinishCall == \E i \in DOMAIN threads : Finish(i)

SessionInit ==
    /\ pc = "threads"
    /\ op = "bootstrap_test"
    /\ args = <<>>
    /\ ret = NoRet
    /\ threads \in [1..MaxThreads -> {Thread(a) : a \in SessionCalls}]
    /\ \A i \in 1..(MaxThreads - 1) :
          SeedRank(threads[i].args.random_state) <= SeedRank(threads[i + 1].args.random_state)
    /\ build \in [pcg64 : [Seeds \X (1..2) -> RawOutputs]]
    /\ frame = <<>>
    /\ messages = <<>>
    /\ sent = <<>>
    /\ log = <<>>

SessionNext ==
    \/ StartCall
    \/ PermutationLoop
    \/ ResamplingLoop
    \/ FinishCall

SpecBootstrap == SessionInit /\ [][SessionNext]_vars

(***************************************************************************)
(* The two loops of one call of bootstrap_test                             *)
(***************************************************************************)

\* Largest n_bootstrap of a call followed through its loops.
MaxLoop == 2

LoopCalls ==
    {[control_data |-> c, treatment_data |-> <<1, 3>>, n_bootstrap |-> n,
      alpha |-> 500, confidence_level |-> 9500, statistic |-> st, random_state |-> Some(42)] :
        c \in {<<0, 1>>, <<0, 0>>}, n \in 1..MaxLoop, st \in {"mean", "median"}}

\* one caller, and what the generator seeded with 42 yields in its 2 *
\* n_bootstrap iterations
LoopInit ==
    /\ pc = "threads"
    /\ op = "bootstrap_test"
    /\ args = <<>>
    /\ ret = NoRet
    /\ threads \in [{1} -> {Thread(a) : a \in LoopCalls}]
    /\ build \in [pcg64 : [{42} \X (1..(2 * MaxLoop)) -> RawOutputs]]
    /\ frame = <<>>
    /\ messages = <<>>
    /\ sent = <<>>
    /\ log = <<>>

SpecLoops == LoopInit /\ [][SessionNext]_vars

(***************************************************************************)
(* Calls of the effect-size module                                         *)
(***************************************************************************)

\* the rates (in 1/10000) given to the effect-size functions
RateGrid == {0, 100, 200, 300, 500, 550, 600, 1500, 5000, 10000}

NNTCalls == {[control_rate |-> c, treatment_rate |-> t] : c \in RateGrid, t \in RateGrid}

NumberNeededToTreat ==
    /\ pc = "call"
    /\ op = "number_needed_to_treat"
    /\ ret' = number_needed_to_treat(args.control_rate, args.treatment_rate)
    /\ pc' = "done"
    /\ UNCHANGED <<op, args, threads, build, frame, messages, sent, log>>

\* the rates given to cohens_h, as fractions successes / total: inside
\* [0, 1], below 0 and above 1
Rates == {<<s, n>> : s \in -1..(MaxN + 2), n \in 1..(MaxN + 1)}

CohensHCalls == {[control_rate |-> c, treatment_rate |-> r] : c \in Rates, r \in Rates}

CohensDCalls == {[control_data |-> c, treatment_data |-> r] : c \in Samples, r \in Samples}

CohensD ==
    /\ pc = "call"
    /\ op = "cohens_d"
    /\ ret' = cohens_d(args.control_data, args.treatment_data)
    /\ pc' = "done"
    /\ UNCHANGED <<op, args, threads, build, frame, messages, sent, log>>

CohensH ==
    /\ pc = "call"
    /\ op = "cohens_h"
    /\ ret' = cohens_h(args.control_rate, args.treatment_rate)
    /\ pc' = "done"
    /\ UNCHANGED <<op, args, threads, build, frame, messages, sent, log>>

RatioCalls == {[control_value |-> c, treatment_value |-> r] : c \in Rates, r \in Rates}

RelativeLift ==
    /\ pc = "call"
    /\ op = "relative_lift"
    /\ ret' = relative_lift(args.control_value, args.treatment_value)
    /\ pc' = "done"
    /\ UNCHANGED <<op, args, threads, build, frame, messages, sent, log>>

OddsRatio ==
    /\ pc = "call"
    /\ op = "odds_ratio"
    /\ ret' = odds_ratio(args.control_rate, args.treatment_rate)
    /\ pc' = "done"
    /\ UNCHANGED <<op, args, threads, build, frame, messages, sent, log>>

RiskRatio ==
    /\ pc = "call"
    /\ op = "risk_ratio"
    /\ ret' = risk_ratio(args.control_rate, args.treatment_rate)
    /\ pc' = "done"
    /\ UNCHANGED <<op, args, threads, build, frame, messages, sent, log>>

EffectInit ==
    \/ Called("cohens_d", CohensDCalls)
    \/ Called("cohens_h", CohensHCalls)
    \/ Called("relative_lift", RatioCalls)
    \/ Called("odds_ratio", CohensHCalls)
    \/ Called("risk_ratio", CohensHCalls)
    \/ Called("number_needed_to_treat", NNTCalls)
    \/ Called("relative_difference_confidence_interval", DiffProportionsCICalls)

EffectNext ==
    \/ CohensD
    \/ CohensH
    \/ RelativeLift
    \/ OddsRatio
    \/ RiskRatio
    \/ NumberNeededToTreat
    \/ RelativeDifferenceConfidenceInterval

SpecEffect == EffectInit /\ [][EffectNext]_vars

(***************************************************************************)
(* power_analysis.py                                                       *)
(*                                                                         *)
(* Rates, alpha and power are in units of 1/10000, and so are effect       *)
(* sizes and the arguments of the normal distribution.                     *)
(***************************************************************************)

\* floor(10^4 * stats.norm.cdf(k / 10)) for k = 0..45
PhiTable ==
    <<5000, 5398, 5792, 6179, 6554, 6914, 7257, 7580, 7881, 8159, 8413, 8643, 8849, 9031,
      9192, 9331, 9452, 9554, 9640, 9712, 9772, 9821, 9860, 9892, 9918, 9937, 9953, 9965,
      9974, 9981, 9986, 9990, 9993, 9995, 9996, 9997, 9998, 9998, 9999, 9999, 9999, 9999,
      9999, 9999, 9999, 9999>>

\* stats.norm.cdf(x) for x >= 0, interpolated in PhiTable
NormCDFPos(x) ==
    LET k == x \div 1000
        r == x % 1000
    IN  IF k + 2 > Len(PhiTable) THEN One
        ELSE PhiTable[k + 1] + ((PhiTable[k + 2] - PhiTable[k + 1]) * r) \div 1000

\* stats.norm.cdf and stats.norm.sf on floats
norm_cdf(x) ==
    IF x.kind = "nan" THEN NaN
    ELSE IF x.kind = "inf" THEN Num(One)
    ELSE IF x.kind = "-inf" THEN Num(0)
    ELSE IF x.v >= 0 THEN Num(NormCDFPos(x.v))
    ELSE Num(One - NormCDFPos(-x.v))

norm_sf(x) == norm_cdf(FNeg(x))

\* Upper quantiles of the standard normal distribution: <<p, z>> says
\* stats.norm.isf(p / 10000) = z / 10000.
UpperQuantiles ==
    << <<50, 25758>>, <<100, 23263>>, <<250, 19600>>, <<500, 16449>>, <<1000, 12816>>,
       <<2000, 8416>>, <<2500, 6745>>, <<5000, 0>> >>

UpperQuantile(p) ==
    UpperQuantiles[CHOOSE i \in 1..Len(UpperQuantiles) : UpperQuantiles[i][1] = p][2]

\* stats.norm.isf(p): nan outside [0, 1], infinite at the ends
norm_isf(p) ==
    IF p < 0 \/ p > One THEN NaN
    ELSE IF p = 0 THEN PosInf
    ELSE IF p = One THEN NegInf
    ELSE IF p <= One \div 2 THEN Num(UpperQuantile(p))
    ELSE Num(-UpperQuantile(One - p))

\* statsmodels' normal_power_het(diff, nobs, alpha, alternative) with unit
\* standard deviations, x being diff * sqrt(nobs)
normal_power(x, alpha, alternative) ==
    LET alpha_ == IF alternative = "two-sided" THEN alpha \div 2 ELSE alpha
        crit   == norm_isf(alpha_)
        upper  == IF alternative \in {"two-sided", "larger"}
                  THEN norm_sf(FSub(crit, Num(x))) ELSE Num(0)
        lower  == IF alternative \in {"two-sided", "smaller"}
                  THEN norm_cdf(FSub(FNeg(crit), Num(x))) ELSE Num(0)
    IN  FAdd(upper, lower)

\* NormalIndPower().power(effect_size, nobs1, alpha, ratio, alternative):
\* nobs = 1 / (1 / nobs1 + 1 / (nobs1 * ratio)) for ratio > 0
NormalIndPower(effect_size, nobs1, alpha, ratio, alternative) ==
    normal_power((effect_size * Isqrt((nobs1 * ratio * 10000) \div (1 + ratio))) \div 100,
                 alpha, alternative)

\* Largest sample size and effect size the solver is followed to.
MaxNobs == 200000

MaxEffect == 100000

\* a float the root finder leaves without converging
Unconverged == [kind |-> "unconverged"]

\* What solve_power gives when the power equation has no root: it warns
\* and returns nan or its last iterate, which solver says.
NoRoot(solver) == IF solver = "nan" THEN NaN ELSE Unconverged

Reaches(power_value, target) == FLeq(Num(target), power_value)

\* the least nobs1 in lo..hi at which the power reaches the target
\* (the power grows with nobs1 and reaches the target at hi)
RECURSIVE LeastNobs(_, _, _, _, _, _, _)
LeastNobs(effect_size, target, alpha, ratio, alternative, lo, hi) ==
    IF lo >= hi THEN hi
    ELSE LET mid == (lo + hi) \div 2
         IN  IF Reaches(NormalIndPower(effect_size, mid, alpha, ratio, alternative), target)
             THEN LeastNobs(effect_size, target, alpha, ratio, alternative, lo, mid)
             ELSE LeastNobs(effect_size, target, alpha, ratio, alternative, mid + 1, hi)

\* the least effect size in lo..hi at which the power reaches the target
RECURSIVE LeastEffect(_, _, _, _, _, _, _)
LeastEffect(nobs1, target, alpha, ratio, alternative, lo, hi) ==
    IF lo >= hi THEN hi
    ELSE LET mid == (lo + hi) \div 2
         IN  IF Reaches(NormalIndPower(mid, nobs1, alpha, ratio, alternative), target)
             THEN LeastEffect(nobs1, target, alpha, ratio, alternative, lo, mid)
             ELSE LeastEffect(nobs1, target, alpha, ratio, alternative, mid + 1, hi)

\* solve_power for nobs1 with the root rounded down instead of up
SolveNobs_RoundedDown(effect_size, power, alpha, ratio, alternative, solver) ==
    IF /\ Reaches(NormalIndPower(effect_size, MaxNobs, alpha, ratio, alternative), power)
       /\ ~Reaches(NormalIndPower(effect_size, 0, alpha, ratio, alternative), power)
    THEN Num(LeastNobs(effect_size, power, alpha, ratio, alternative, 1, MaxNobs) - 1)
    ELSE NoRoot(solver)

\* solve_power(effect_size, power, alpha, ratio, alternative) for nobs1,
\* rounded up: the root of power(nobs1) = power, which exists when the
\* power lies above the target at MaxNobs and below it at nobs1 -> 0.
SolveNobs(effect_size, power, alpha, ratio, alternative, solver) ==
    IF /\ Reaches(NormalIndPower(effect_size, MaxNobs, alpha, ratio, alternative), power)
       /\ ~Reaches(NormalIndPower(effect_size, 0, alpha, ratio, alternative), power)
    THEN Num(LeastNobs(effect_size, power, alpha, ratio, alternative, 1, MaxNobs))
    ELSE NoRoot(solver)

\* solve_power(nobs1, power, alpha, ratio, alternative) for effect_size
SolveEffect(nobs1, power, alpha, ratio, alternative, solver) ==
    IF /\ Reaches(NormalIndPower(MaxEffect, nobs1, alpha, ratio, alternative), power)
       /\ ~Reaches(NormalIndPower(0, nobs1, alpha, ratio, alternative), power)
    THEN Num(LeastEffect(nobs1, power, alpha, ratio, alternative, 1, MaxEffect))
    ELSE NoRoot(solver)

\* math.ceil of the solver's float
Ceil(x) ==
    IF x.kind = "nan" THEN Raise("cannot convert float NaN to integer")
    ELSE IF x.kind = "unconverged" THEN PyValue(Unconverged)
    ELSE PyValue(x.v)

\* 2 * math.asin(math.sqrt(p)): <<p, phi>> says 2 asin(sqrt(p / 10000)) =
\* phi / 10000
ArcsineTable ==
    << <<0, 0>>, <<100, 2003>>, <<400, 4027>>, <<500, 4510>>, <<600, 4949>>,
       <<1000, 6435>>, <<1100, 6761>>, <<1500, 7953>>, <<2000, 9272>>, <<2500, 10471>>,
       <<3000, 11592>>, <<3500, 12661>>, <<4000, 13694>>, <<4500, 14706>>,
       <<4900, 15507>>, <<5000, 15707>>, <<5100, 15907>>, <<5500, 16709>>,
       <<6000, 17721>>, <<6500, 18754>>, <<7000, 19823>>, <<7500, 20943>>,
       <<8000, 22142>>, <<8500, 23461>>, <<9000, 24980>>, <<9500, 26905>>,
       <<9900, 29412>>, <<10000, 31415>> >>

TwiceArcsinSqrt(p) ==
    ArcsineTable[CHOOSE i \in 1..Len(ArcsineTable) : ArcsineTable[i][1] = p][2]

\* math.sin(phi / 2) ** 2 for 0 <= phi <= pi, interpolated in ArcsineTable
SinSquared(phi) ==
    LET i  == CHOOSE i \in 1..(Len(ArcsineTable) - 1) :
                  ArcsineTable[i][2] <= phi /\ phi <= ArcsineTable[i + 1][2]
        lo == ArcsineTable[i]
        hi == ArcsineTable[i + 1]
    IN  lo[1] + ((hi[1] - lo[1]) * (phi - lo[2])) \div (hi[2] - lo[2])

\* effect_size = 2 * (asin(sqrt(p2)) - asin(sqrt(p1))), taken absolute
AbsEffectSize(p1, p2) == Abs(TwiceArcsinSqrt(p2) - TwiceArcsinSqrt(p1))

InUnit(x) == 0 < x /\ x < One

\* calculate_sample_size(baseline_rate, mde, power, alpha, ratio, alternative)
calculate_sample_size(baseline_rate, mde, power, alpha, ratio, alternative, solver) ==
    IF ~InUnit(baseline_rate) THEN Raise("baseline_rate must be between 0 and 1")
    ELSE IF mde <= 0 THEN Raise("mde must be positive")
    ELSE IF ~InUnit(power) THEN Raise("power must be between 0 and 1")
    ELSE IF ~InUnit(alpha) THEN Raise("alpha must be between 0 and 1")
    ELSE IF ~InUnit(baseline_rate + mde)
    THEN Raise("baseline_rate + mde must be between 0 and 1")
    ELSE Ceil(SolveNobs(AbsEffectSize(baseline_rate, baseline_rate + mde),
                        power, alpha, ratio, alternative, solver))

\* calculate_sample_size_continuous(baseline_mean, baseline_std, mde, power,
\*     alpha, ratio, alternative); TTestIndPower's power is taken as the
\* normal one.  A zero effect size cannot occur after the two checks.
calculate_sample_size_continuous(baseline_mean, baseline_std, mde, power, alpha, ratio, alternative, solver) ==
    IF baseline_std <= 0 THEN Raise("baseline_std must be positive")
    ELSE IF mde <= 0 THEN Raise("mde must be positive")
    ELSE Ceil(SolveNobs(Fixed(mde, baseline_std), power, alpha, ratio, alternative, solver))

\* calculate_power(n, baseline_rate, mde, alpha, ratio, alternative)
calculate_power(n, baseline_rate, mde, alpha, ratio, alternative) ==
    IF n <= 0 THEN Raise("n must be positive")
    ELSE IF ~InUnit(baseline_rate) THEN Raise("baseline_rate must be between 0 and 1")
    ELSE IF ~InUnit(baseline_rate + mde)
    THEN Raise("baseline_rate + mde must be between 0 and 1")
    ELSE PyValue(NormalIndPower(AbsEffectSize(baseline_rate, baseline_rate + mde),
                                n, alpha, ratio, alternative))

\* calculate_mde(n, baseline_rate, power, alpha, ratio, alternative)
calculate_mde(n, baseline_rate, power, alpha, ratio, alternative, solver) ==
    IF n <= 0 THEN Raise("n must be positive")
    ELSE IF ~InUnit(baseline_rate) THEN Raise("baseline_rate must be between 0 and 1")
    ELSE LET effect_size == SolveEffect(n, power, alpha, ratio, alternative, solver)
             PiFixed     == TwiceArcsinSqrt(One)
             phi         == effect_size.v + TwiceArcsinSqrt(baseline_rate)
             clamped     == IF phi > PiFixed THEN PiFixed - 20
                            ELSE IF phi < 0 THEN 20 ELSE phi
         IN  IF effect_size.kind = "num"
             THEN PyValue(Num(Abs(SinSquared(clamped) - baseline_rate)))
             ELSE PyValue(effect_size)

\* power_curve(baseline_rate, mde, alpha, sample_sizes)
RECURSIVE PowerPoints(_, _, _, _)
PowerPoints(sample_sizes, baseline_rate, mde, alpha) ==
    IF sample_sizes = <<>> THEN PyValue(<<>>)
    ELSE LET n     == Head(sample_sizes)
             power == calculate_power(n, baseline_rate, mde, alpha, 1, "two-sided")
             rest  == PowerPoints(Tail(sample_sizes), baseline_rate, mde, alpha)
         IN  IF power.kind = "error" THEN power
             ELSE IF rest.kind = "error" THEN rest
             ELSE PyValue(<< <<n, power.value>> >> \o rest.value)

power_curve(baseline_rate, mde, alpha, sample_sizes, solver) ==
    IF sample_sizes.some
    THEN PowerPoints(sample_sizes.value, baseline_rate, mde, alpha)
    ELSE LET min_n == calculate_sample_size(baseline_rate, mde, One \div 2, alpha,
                                            1, "two-sided", solver)
             max_n == calculate_sample_size(baseline_rate, mde, 9900, alpha,
                                            1, "two-sided", solver)
         IN  IF min_n.kind = "error" THEN min_n
             ELSE IF max_n.kind = "error" THEN max_n
             ELSE IF min_n.value \notin Int \/ max_n.value \notin Int
             THEN PyValue(Unconverged)
             ELSE PowerPoints([i \in 1..11 |->
                                  min_n.value + ((max_n.value - min_n.value) * (i - 1)) \div 10],
                              baseline_rate, mde, alpha)

\* The triples <<total_sample_needed, daily_traffic, traffic_allocation>> of
\* the calls below on which the float quotient lies just above a whole
\* exact quotient: 700 * 0.7 is 489.99999999999994 and 4900 / that is
\* 10.000000000000002; 3 * 0.3 is 0.8999999999999999 and 18 / that is
\* 20.000000000000004.
FloatQuotientAbove ==
    {<<18, 3, 3000>>, <<27, 3, 3000>>, <<4900, 700, 7000>>, <<7350, 3, 7000>>,
     <<7350, 700, 7000>>}

\* math.ceil(total_sample_needed / effective_daily_traffic) as the floats
\* give it: the ceiling of the exact quotient, and one more on the triples of
\* FloatQuotientAbove
CeilDuration(total, daily_traffic, traffic_allocation) ==
    LET num == total * One
        den == daily_traffic * traffic_allocation
    IN  (num + den - 1) \div den
          + (IF <<total, daily_traffic, traffic_allocation>> \in FloatQuotientAbove
             THEN 1 ELSE 0)

\* estimate_duration(sample_size_per_variant, daily_traffic, num_variants,
\*                   traffic_allocation); traffic_allocation in 1/10000
estimate_duration(sample_size_per_variant, daily_traffic, num_variants, traffic_allocation) ==
    IF sample_size_per_variant <= 0 THEN Raise("sample_size_per_variant must be positive")
    ELSE IF daily_traffic <= 0 THEN Raise("daily_traffic must be positive")
    ELSE IF num_variants < 2 THEN Raise("num_variants must be at least 2")
    ELSE IF ~(0 < traffic_allocation /\ traffic_allocation <= One)
    THEN Raise("traffic_allocation must be between 0 and 1")
    ELSE PyValue(CeilDuration(sample_size_per_variant * num_variants, daily_traffic,
                              traffic_allocation))

(***************************************************************************)
(* Calls of the power-analysis module                                      *)
(***************************************************************************)

BaselineRates == {0, 500, 5000, 10000}

MDEs == {-100, 0, 100, 1000, 6000}

Powers == {8000, 5000, 9900, 0, 10000, 15000}

Alphas == {500, 100, 0, 10000, 15000, -500}

Alternatives == {"two-sided", "larger", "smaller"}

SampleCounts == {-1, 0, 100, 1000, 10000}

SolverOutcomes == {"nan", "iterate"}

SampleSizeCalls ==
    {[baseline_rate |-> b, mde |-> m, power |-> pw, alpha |-> al, ratio |-> 1,
      alternative |-> alt] :
        b \in BaselineRates, m \in MDEs, pw \in Powers, al \in Alphas, alt \in Alternatives}

SampleSizeContinuousCalls ==
    {[baseline_mean |-> 100, baseline_std |-> sd, mde |-> m, power |-> pw, alpha |-> al,
      ratio |-> 1, alternative |-> alt] :
        sd \in {0, 10, 20}, m \in {-1, 0, 1, 5, 10}, pw \in Powers, al \in Alphas,
        alt \in Alternatives}

PowerCalls ==
    {[n |-> n, baseline_rate |-> b, mde |-> m, alpha |-> al, ratio |-> 1, alternative |-> alt] :
        n \in SampleCounts, b \in BaselineRates, m \in MDEs, al \in Alphas,
        alt \in Alternatives}

MDECalls ==
    {[n |-> n, baseline_rate |-> b, power |-> pw, alpha |-> al, ratio |-> 1,
      alternative |-> alt] :
        n \in SampleCounts, b \in BaselineRates, pw \in Powers, al \in Alphas,
        alt \in Alternatives}

PowerCurveCalls ==
    {[baseline_rate |-> b, mde |-> m, alpha |-> al, sample_sizes |-> ss] :
        b \in BaselineRates, m \in MDEs, al \in Alphas,
        ss \in {None, Some(<<>>), Some(<<100, 1000>>), Some(<<100, 0>>)}}

CalculateSampleSize ==
    /\ pc = "call"
    /\ op = "calculate_sample_size"
    /\ \E solver \in SolverOutcomes :
          ret' = calculate_sample_size(args.baseline_rate, args.mde, args.power, args.alpha,
                                       args.ratio, args.alternative, solver)
    /\ pc' = "done"
    /\ UNCHANGED <<op, args, threads, build, frame, messages, sent, log>>

CalculateSampleSizeContinuous ==
    /\ pc = "call"
    /\ op = "calculate_sample_size_continuous"
    /\ \E solver \in SolverOutcomes :
          ret' = calculate_sample_size_continuous(args.baseline_mean, args.baseline_std,
                                                  args.mde, args.power, args.alpha,
                                                  args.ratio, args.alternative, solver)
    /\ pc' = "done"
    /\ UNCHANGED <<op, args, threads, build, frame, messages, sent, log>>

CalculatePower ==
    /\ pc = "call"
    /\ op = "calculate_power"
    /\ ret' = calculate_power(args.n, args.baseline_rate, args.mde, args.alpha, args.ratio,
                              args.alternative)
    /\ pc' = "done"
    /\ UNCHANGED <<op, args, threads, build, frame, messages, sent, log>>

CalculateMDE ==
    /\ pc = "call"
    /\ op = "calculate_mde"
    /\ \E solver \in SolverOutcomes :
          ret' = calculate_mde(args.n, args.baseline_rate, args.power, args.alpha,
                               args.ratio, args.alternative, solver)
    /\ pc' = "done"
    /\ UNCHANGED <<op, args, threads, build, frame, messages, sent, log>>

PowerCurve ==
    /\ pc = "call"
    /\ op = "power_curve"
    /\ \E solver \in SolverOutcomes :
          ret' = power_curve(args.baseline_rate, args.mde, args.alpha, args.sample_sizes,
                             solver)
    /\ pc' = "done"
    /\ UNCHANGED <<op, args, threads, build, frame, messages, sent, log>>

DurationCalls ==
    {[sample_size_per_variant |-> s, daily_traffic |-> d, num_variants |-> v,
      traffic_allocation |-> al] :
        s \in {-1, 0, 1, 9, 2450}, d \in {-1, 0, 1, 3, 700}, v \in {1, 2, 3},
        al \in {-1000, 0, 3000, 7000, 10000, 15000}}

EstimateDuration ==
    /\ pc = "call"
    /\ op = "estimate_duration"
    /\ ret' = estimate_duration(args.sample_size_per_variant, args.daily_traffic,
                                args.num_variants, args.traffic_allocation)
    /\ pc' = "done"
    /\ UNCHANGED <<op, args, threads, build, frame, messages, sent, log>>

PowerInit ==
    \/ Called("calculate_sample_size", SampleSizeCalls)
    \/ Called("calculate_sample_size_continuous", SampleSizeContinuousCalls)
    \/ Called("calculate_power", PowerCalls)
    \/ Called("estimate_duration", DurationCalls)
    \/ Called("calculate_mde", MDECalls)
    \/ Called("power_curve", PowerCurveCalls)

PowerNext ==
    \/ CalculateSampleSize
    \/ CalculateSampleSizeContinuous
    \/ CalculatePower
    \/ EstimateDuration
    \/ CalculateMDE
    \/ PowerCurve

SpecPower == PowerInit /\ [][PowerNext]_vars

(***************************************************************************)
(* agents/analysis.py and api/routes/analysis.py                           *)
(*                                                                         *)
(* One call of AnalysisAgent.analyze_experiment, directly or through the   *)
(* POST /analyze route, on a newly constructed agent.  messages and sent   *)
(* are the agent's history and the list it hands the language model.       *)
(***************************************************************************)

\* raise TypeError(msg)
TypeError(msg) == [kind |-> "error", error |-> "TypeError", message |-> msg]

\* _analyze_binary_metric(events, control_name, treatment_name, alpha)
analyze_binary_metric(rows, control_name, treatment_name, alpha, nan_in_range) ==
    LET control   == aggregate_conversion_rate(rows, control_name)
        treatment == aggregate_conversion_rate(rows, treatment_name)
    IN  two_proportion_ztest(control.successes, control.total,
                             treatment.successes, treatment.total,
                             alpha, 9500, "two-sided", nan_in_range)

\* the values of a ContinuousMetric as an array of numbers (every user of
\* the tables analysed has whole values)
WholeValues(values) == [i \in 1..Len(values) |-> values[i][1] \div values[i][2]]

\* lines 189-196 of _analyze_continuous_metric: the length check and the
\* test on the values of the two metrics
ContinuousTest(control, treatment, alpha, nan_in_range) ==
    IF Len(control.values) < 2 \/ Len(treatment.values) < 2
    THEN Raise("Insufficient data for continuous metric analysis")
    ELSE two_sample_ttest(WholeValues(control.values), WholeValues(treatment.values),
                          alpha, 9500, FALSE, "two-sided", nan_in_range)

\* _analyze_continuous_metric(events, control_name, treatment_name, alpha)
analyze_continuous_metric(rows, control_name, treatment_name, alpha, nan_in_range) ==
    ContinuousTest(aggregate_continuous_metric(rows, control_name, None, "mean"),
                   aggregate_continuous_metric(rows, treatment_name, None, "mean"),
                   alpha, nan_in_range)

\* The prompt of _get_interpretation (lines 220-232), an f-string that
\* formats result.relative_effect with ".1f" whatever it is: formatting
\* None raises TypeError.
InterpretationPrompt(result) ==
    IF result.relative_effect.some THEN PyValue("Interpret these AB test results")
    ELSE TypeError("unsupported format string passed to NoneType.__format__")

\* the sentence _get_interpretation falls back on (lines 240-243)
Fallback(result) ==
    IF result.statistically_significant
    THEN "The experiment shows a statistically significant effect"
    ELSE "The experiment did not reach statistical significance"

\* _get_interpretation(result, srm_detected, data_issues); responds says
\* whether the language model answers self.invoke
get_interpretation(result, responds) ==
    LET prompt == InterpretationPrompt(result)
    IN  IF prompt.kind = "error" THEN prompt
        ELSE IF responds THEN PyValue("response")
        ELSE PyValue(Fallback(result))

\* AnalysisResultSchema(...)
AnalysisResultSchema(primary_result, srm_detected, data_quality_issues, interpretation) ==
    [kind |-> "value", primary_metric_result |-> primary_result,
     sample_ratio_mismatch |-> srm_detected, data_quality_issues |-> data_quality_issues,
     interpretation |-> interpretation]

\* the primary result of analyze_experiment (lines 123-130)
PrimaryResult(events, metric_type, alpha, nan_in_range) ==
    IF metric_type = "binary"
    THEN analyze_binary_metric(events.rows, "control", "treatment", alpha, nan_in_range)
    ELSE analyze_continuous_metric(events.rows, "control", "treatment", alpha, nan_in_range)

\* lines 133-147 of analyze_experiment: the interpretation and the result
Interpreted(primary_result, srm_detected, data_quality_issues, interpretation) ==
    IF interpretation.kind = "error" THEN interpretation
    ELSE AnalysisResultSchema(primary_result, srm_detected, data_quality_issues,
                              interpretation.value)

\* lines 102-147 of analyze_experiment, from what its calls returned; an
\* exception of a call ends it
Analysed(validation, srm_result, primary_result, responds) ==
    IF validation.kind = "error" THEN validation
    ELSE IF primary_result.kind = "error" THEN primary_result
    ELSE Interpreted(primary_result, srm_result.is_srm_detected,
                     IF validation.issues /= <<>> THEN Some(validation.issues) ELSE None,
                     get_interpretation(primary_result, responds))

\* analyze_experiment(events, experiment_id, metric_type=..., alpha=...)
\* with the default variant names
analyze_experiment(events, metric_type, alpha, responds, nan_in_range) ==
    Analysed(validate_experiment_data(events, None, 100, "control", "treatment"),
             detect_sample_ratio_mismatch(
                 aggregate_conversion_rate(events.rows, "control").total,
                 aggregate_conversion_rate(events.rows, "treatment").total,
                 DefaultExpectedRatio, DefaultSRMAlpha),
             PrimaryResult(events, metric_type, alpha, nan_in_range),
             responds)

\* The rows the route builds from the values of one variant (lines 39-58):
\* one row per value, a conversion row when the value is positive and an
\* exposure row otherwise; the users are numbered from first_user + 1
RouteRows(variant, first_user, values) ==
    [i \in 1..Len(values) |->
        MetricRow(first_user + i, variant,
                  IF values[i] > 0 THEN "conversion" ELSE "exposure", Some(values[i]))]

RouteColumns == {"user_id", "variant_name", "event_type", "metric_value", "converted"}

\* pd.DataFrame(events_data): no columns when there is no row
RouteFrame(control_values, treatment_values) ==
    LET rows == RouteRows("control", 0, control_values)
                    \o RouteRows("treatment", 100, treatment_values)
    IN  Table(IF rows = <<>> THEN {} ELSE RouteColumns, rows)

\* raise HTTPException(status_code=500, ...)
HTTPException(e) == [kind |-> "error", error |-> "HTTPException", message |-> e.error]

\* lines 72-85 of the route: the response, or the HTTPException any
\* exception becomes
Response(analysis) ==
    IF analysis.kind = "error" THEN HTTPException(analysis)
    ELSE [kind |-> "value", success |-> TRUE, analysis |-> analysis]

\* line 65: agent.analyze_experiment on the route's table with the default
\* alpha; a table without rows has no column to select on
RouteAnalysis(events, metric_type, responds, nan_in_range) ==
    IF events.rows = <<>> THEN KeyError("variant_name")
    ELSE analyze_experiment(events, metric_type, 500, responds, nan_in_range)

\* the body of the route
analyze_route(control_values, treatment_values, metric_type, responds, nan_in_range) ==
    Response(RouteAnalysis(RouteFrame(control_values, treatment_values), metric_type,
                           responds, nan_in_range))

\* Largest number of users of a variant in an analysed table.
MaxUsers == 3

\* What is known of one user: exposed without a metric value (None), or
\* exposed and converted with the metric value 0 or 1.
UserRecords == <<None, Some(0), Some(1)>>

\* the users of a variant, given once for each choice of records
UserLists ==
    {[i \in 1..Len(s) |-> UserRecords[s[i]]] : s \in
        {s \in SeqsUpTo(1..Len(UserRecords), MaxUsers) :
            \A i \in 1..(Len(s) - 1) : s[i] <= s[i + 1]}}

\* the event log of the users of a variant: an exposure row for each, and a
\* conversion row with the metric value for those that converted
RECURSIVE EventLog(_, _, _)
EventLog(variant, first_user, users) ==
    IF users = <<>> THEN <<>>
    ELSE LET u == first_user + Len(users)
             last == users[Len(users)]
         IN  EventLog(variant, first_user, SubSeq(users, 1, Len(users) - 1))
                 \o <<MetricRow(u, variant, "exposure", None)>>
                 \o (IF last.some THEN <<MetricRow(u, variant, "conversion", last)>> ELSE <<>>)

AnalyzeCalls ==
    {[events |-> Table(AllColumns, EventLog("control", 0, c) \o EventLog("treatment", 100, tr)),
      metric_type |-> mt, alpha |-> 500] :
        c \in UserLists, tr \in UserLists, mt \in {"binary", "continuous"}}

RouteCalls ==
    {[control_values |-> c, treatment_values |-> tr, metric_type |-> mt] :
        c \in SeqsUpTo({0, 1}, MaxUsers), tr \in SeqsUpTo({0, 1}, MaxUsers),
        mt \in {"binary", "continuous"}}

\* self.invoke is reached exactly when the call returns: the agent then
\* holds the prompt and, if the language model answered, its answer
Answered(responds) ==
    IF ret'.kind = "value"
    THEN /\ messages' = InvokeHistory(messages, "prompt", responds, 1)
         /\ sent' = build_messages("prompt", Some("context"), messages, 1)
    ELSE UNCHANGED <<messages, sent>>

\* agent.analyze_experiment(events, ...)
AnalyzeExperiment ==
    /\ pc = "call"
    /\ op = "analyze_experiment"
    /\ \E responds \in BOOLEAN, nan_in_range \in BOOLEAN :
          /\ ret' = analyze_experiment(args.events, args.metric_type, args.alpha, responds,
                                       nan_in_range)
          /\ Answered(responds)
    /\ pc' = "done"
    /\ UNCHANGED <<op, args, threads, build, frame, log>>

\* POST /analyze
AnalyzeRoute ==
    /\ pc = "call"
    /\ op = "analyze_route"
    /\ \E responds \in BOOLEAN, nan_in_range \in BOOLEAN :
          /\ ret' = analyze_route(args.control_values, args.treatment_values,
                                  args.metric_type, responds, nan_in_range)
          /\ Answered(responds)
    /\ pc' = "done"
    /\ UNCHANGED <<op, args, threads, build, frame, log>>

AnalysisInit ==
    \/ Called("analyze_experiment", AnalyzeCalls)
    \/ Called("analyze_route", RouteCalls)

AnalysisNext ==
    \/ AnalyzeExperiment
    \/ AnalyzeRoute

SpecAnalysis == AnalysisInit /\ [][AnalysisNext]_vars

Done(f) == pc = "done" /\ op = f

\* sub occurs in the string s
Contains(s, sub) ==
    \E i \in 1..(Len(s) - Len(sub) + 1) : SubSeq(s, i, i + Len(sub) - 1) = sub

(***************************************************************************)
(* C1.  two_proportion_ztest never raises a division error on degenerate   *)
(* data: whenever the pooled standard error is exactly 0 (every count of   *)
(* successes is 0, or every observation in both groups is a success), with *)
(* valid counts and any alpha in (0, 1], it returns statistic = 0.0,       *)
(* p_value = 1.0 and statistically_significant = False; so does            *)
(* two_proportion_ztest(0, 100, 0, 100).  The result is returned for every *)
(* confidence_level the result schema admits, [0, 1].                      *)
(***************************************************************************)
ValidCounts(a) ==
    /\ a.control_n > 0 /\ a.treatment_n > 0
    /\ 0 <= a.control_successes /\ a.control_successes <= a.control_n
    /\ 0 <= a.treatment_successes /\ a.treatment_successes <= a.treatment_n

DegenerateCounts(a) ==
    \/ a.control_successes = 0 /\ a.treatment_successes = 0
    \/ a.control_successes = a.control_n /\ a.treatment_successes = a.treatment_n

C1_DegenerateZTest ==
    ( /\ Done("two_proportion_ztest")
      /\ ValidCounts(args)
      /\ DegenerateCounts(args)
      /\ 0 < args.alpha /\ args.alpha <= One )
    =>  /\ ~(ret.kind = "error" /\ ret.error = "ZeroDivisionError")
        /\ (0 <= args.confidence_level /\ args.confidence_level <= One) => ret.kind = "value"
        /\ ret.kind = "value" =>
              /\ ret.statistic = Num(0)
              /\ ret.p_value = Num(One)
              /\ ret.statistically_significant = FALSE

C1_Witness ==
    /\ Done("two_proportion_ztest")
    /\ args.control_successes = 0 /\ args.control_n = 100
    /\ args.treatment_successes = 0 /\ args.treatment_n = 100
    /\ args.alpha = 500 /\ args.confidence_level = 9500
    /\ ret.kind = "value"
    /\ ret.statistic = Num(0) /\ ret.p_value = Num(One)
    /\ ret.statistically_significant = FALSE

(***************************************************************************)
(* C2.  validate_experiment_data short-circuits on missing required        *)
(* columns: when a required column is absent it returns is_valid = False   *)
(* and exactly one issue, "Missing required columns: [...]", listing the   *)
(* missing columns in required-column order, and no other issue; a table   *)
(* missing only event_type gives                                           *)
(* (False, ["Missing required columns: ['event_type']"]).                  *)
(***************************************************************************)
RequiredOf(a) ==
    IF a.required_columns.some THEN a.required_columns.value ELSE DefaultRequiredColumns

\* the positions of the required columns the table lacks
MissingPositions(a) == {i \in 1..Len(RequiredOf(a)) : RequiredOf(a)[i] \notin a.events.columns}

\* the missing columns, by increasing position in the required list
MissingInOrder(a) ==
    LET idx == MissingPositions(a)
        ord == CHOOSE f \in [1..Cardinality(idx) -> idx] :
                   \A i, j \in 1..Cardinality(idx) : i < j => f[i] < f[j]
    IN  [k \in 1..Cardinality(idx) |-> RequiredOf(a)[ord[k]]]

C2_MissingColumnsShortCircuit ==
    (Done("validate_experiment_data") /\ MissingPositions(args) /= {}) =>
        /\ ret.kind = "value"
        /\ ret.is_valid = FALSE
        /\ Len(ret.issues) = 1
        /\ ret.issues[1] = "Missing required columns: " \o PyList(MissingInOrder(args))
        /\ (~args.required_columns.some /\ args.events.columns = AllColumns \ {"event_type"})
               => ret.issues = << "Missing required columns: ['event_type']" >>

C2_Witness ==
    /\ Done("validate_experiment_data")
    /\ ~args.required_columns.some
    /\ args.events.columns = AllColumns \ {"event_type"}
    /\ Len(args.events.rows) > 0
    /\ ret.is_valid = FALSE
    /\ ret.issues = << "Missing required columns: ['event_type']" >>

(***************************************************************************)
(* C3.  On a table that has all required columns, every remaining check of *)
(* validate_experiment_data is non-fatal and accumulates: the issue list   *)
(* holds one issue for each failing check among non-zero row count,        *)
(* control presence / minimum size, treatment presence / minimum size,     *)
(* null count in user_id, null count in variant_name and SRM, in that      *)
(* order, and no failing check prevents a later one from being run and     *)
(* reported.                                                               *)
(***************************************************************************)
\* the check an issue reports, recognised by how its text begins
IssueCheck(issue) ==
    LET starts(prefix) == Len(issue) >= Len(prefix) /\ SubSeq(issue, 1, Len(prefix)) = prefix
    IN  IF starts("Missing required columns: ") THEN "columns"
        ELSE IF issue = "No events in dataset" THEN "rows"
        ELSE IF starts("Control variant '") \/ starts("Control sample size (") THEN "control"
        ELSE IF starts("Treatment variant '") \/ starts("Treatment sample size (") THEN "treatment"
        ELSE IF starts("Column 'user_id' has ") THEN "user_id nulls"
        ELSE IF starts("Column 'variant_name' has ") THEN "variant_name nulls"
        ELSE IF starts("Sample Ratio Mismatch detected (p=") THEN "srm"
        ELSE "other"

\* the variant has an exposure row
Exposed(rows, v) ==
    \E i \in 1..Len(rows) : rows[i].event_type = "exposure" /\ rows[i].variant_name = v

\* the number of distinct, non-missing users exposed to the variant
ExposedCount(rows, v) ==
    Cardinality({u \in {rows[i].user_id : i \in 1..Len(rows)} \ {NullUser} :
        \E i \in 1..Len(rows) : rows[i] = Row(u, v, "exposure")})

VariantFails(rows, v, min) == ~Exposed(rows, v) \/ ExposedCount(rows, v) < min

\* Both variants exposed and the 50/50 chi-square statistic (c - t)^2 / (c + t)
\* beyond the critical value 6.634896 of alpha = 0.01.
SRMFails(rows, c, t) ==
    /\ Exposed(rows, c) /\ Exposed(rows, t)
    /\ LET nc == ExposedCount(rows, c)
           nt == ExposedCount(rows, t)
       IN  (nc - nt) * (nc - nt) * 1000000 > 6634896 * (nc + nt)

\* the failing checks of a call, in the order of the claim
FailingChecks(a) ==
    LET rows == a.events.rows
        pick(failed, name) == IF failed THEN <<name>> ELSE <<>>
    IN  pick(Len(rows) = 0, "rows")
        \o pick(VariantFails(rows, a.control_name, a.min_sample_size), "control")
        \o pick(VariantFails(rows, a.treatment_name, a.min_sample_size), "treatment")
        \o pick(\E i \in 1..Len(rows) : rows[i].user_id = NullUser, "user_id nulls")
        \o pick(\E i \in 1..Len(rows) : rows[i].variant_name = NullVariant, "variant_name nulls")
        \o pick(SRMFails(rows, a.control_name, a.treatment_name), "srm")

ReportedChecks(issues) == [i \in 1..Len(issues) |-> IssueCheck(issues[i])]

\* The claim as stated: it fails on an empty table, where the row-count
\* issue is returned at once and the variant checks are not run.
C3_AllChecksAccumulate ==
    (Done("validate_experiment_data") /\ MissingPositions(args) = {}) =>
        /\ ret.kind = "value"
        /\ ReportedChecks(ret.issues) = FailingChecks(args)

\* C3 as amended: the row-count check is fatal too (an empty table returns
\* (False, ["No events in dataset"]) at once); on a non-empty table that has
\* all required columns and the columns the checks read, the issue list
\* holds one issue per failing check among control, treatment, user_id
\* nulls, variant_name nulls and SRM, in that order.
C3_ChecksAccumulateOnNonEmpty ==
    (Done("validate_experiment_data") /\ MissingPositions(args) = {}) =>
        /\ Len(args.events.rows) = 0 =>
               ret = Validation(FALSE, <<"No events in dataset">>)
        /\ (Len(args.events.rows) > 0 /\ ReadColumns \subseteq args.events.columns) =>
               /\ ret.kind = "value"
               /\ ReportedChecks(ret.issues) = FailingChecks(args)

C3_Witness ==
    /\ Done("validate_experiment_data")
    /\ MissingPositions(args) = {}
    /\ ret.kind = "value"
    /\ ReportedChecks(ret.issues) = <<"control", "user_id nulls", "variant_name nulls", "srm">>

(***************************************************************************)
(* C4.  number_needed_to_treat(control_rate=0.05, treatment_rate=0.055)    *)
(* returns value ~ 200 with interpretation "moderate effect".              *)
(***************************************************************************)
\* the value is within 1% of n
ApproxValue(value, n) ==
    /\ ~value.inf
    /\ Abs(value.num - n * value.den) * 100 <= n * value.den

\* The claim as stated: it fails, NNT = 200 is above the "moderate effect"
\* bound of 100.
C4_NNTModerate ==
    (Done("number_needed_to_treat") /\ args.control_rate = 500 /\ args.treatment_rate = 550) =>
        /\ ApproxValue(ret.value, 200)
        /\ ret.interpretation = "moderate effect"

\* C4 as amended: the call returns value ~ 200 with interpretation
\* "weak effect".
C4_NNTWeak ==
    (Done("number_needed_to_treat") /\ args.control_rate = 500 /\ args.treatment_rate = 550) =>
        /\ ret.kind = "value"
        /\ ApproxValue(ret.value, 200)
        /\ ret.interpretation = "weak effect"
        /\ ret.metric_name = "NNT"

C4_Witness ==
    /\ Done("number_needed_to_treat")
    /\ args.control_rate = 500 /\ args.treatment_rate = 550
    /\ ret.value = Frac(One, 50)
    /\ ret.interpretation = "weak effect"

(***************************************************************************)
(* C5.  Every one of the five hypothesis tests signals an error instead of *)
(* returning a result on invalid input: two_sample_ttest, mann_whitney_u   *)
(* and bootstrap_test raise when either group has fewer than 2             *)
(* observations, and two_proportion_ztest and chi_square_test raise when a *)
(* success count is negative or exceeds its group's total, or a group size *)
(* is not positive.                                                        *)
(***************************************************************************)
SampleTests == {"two_sample_ttest", "mann_whitney_u", "bootstrap_test"}

ProportionTests == {"two_proportion_ztest", "chi_square_test"}

C5_InvalidInputRaises ==
    /\ ( /\ pc = "done"
         /\ op \in SampleTests
         /\ (Len(args.control_data) < 2 \/ Len(args.treatment_data) < 2) )
       => ret.kind = "error"
    /\ ( /\ pc = "done"
         /\ op \in ProportionTests
         /\ ~ValidCounts(args) )
       => ret.kind = "error"

C5_Witness ==
    /\ Done("two_sample_ttest")
    /\ Len(args.control_data) = 1
    /\ Len(args.treatment_data) = 3
    /\ ret = Raise("Need at least 2 data points per group")

(***************************************************************************)
(* C6.  Every power-analysis function that takes these parameters          *)
(* (calculate_sample_size, calculate_sample_size_continuous,               *)
(* calculate_power, calculate_mde, power_curve) validates that rates lie   *)
(* strictly in (0, 1), that power and alpha lie in (0, 1) and that mde is  *)
(* positive, and signals an error otherwise: a call with one of its        *)
(* parameters out of range never returns a value.                          *)
(***************************************************************************)
OutOfUnit(x) == ~(0 < x /\ x < One)

TakesRate == {"calculate_sample_size", "calculate_power", "calculate_mde", "power_curve"}

TakesMDE ==
    {"calculate_sample_size", "calculate_sample_size_continuous", "calculate_power",
     "power_curve"}

TakesPower == {"calculate_sample_size", "calculate_sample_size_continuous", "calculate_mde"}

TakesAlpha == TakesRate \cup TakesPower

BadPowerParameters ==
    \/ op \in TakesRate /\ OutOfUnit(args.baseline_rate)
    \/ op \in TakesMDE /\ args.mde <= 0
    \/ op \in TakesPower /\ OutOfUnit(args.power)
    \/ op \in TakesAlpha /\ OutOfUnit(args.alpha)

C6_PowerParametersValidated ==
    (pc = "done" /\ op \in TakesAlpha /\ BadPowerParameters) => ret.kind = "error"

(***************************************************************************)
(* C7.  Out-of-range configuration always fails fast: every                *)
(* confidence-interval function rejects a confidence outside (0, 1) and    *)
(* every hypothesis test rejects an alpha or confidence_level outside      *)
(* (0, 1) by raising, so no result record is ever produced from an         *)
(* out-of-range alpha or confidence.                                       *)
(***************************************************************************)
IntervalFunctions ==
    {"mean_confidence_interval", "proportion_confidence_interval",
     "difference_confidence_interval_proportions", "difference_confidence_interval_means",
     "relative_difference_confidence_interval"}

C7_OutOfRangeFailsFast ==
    /\ (pc = "done" /\ op \in IntervalFunctions /\ OutOfUnit(args.confidence))
       => ret.kind = "error"
    /\ ( /\ pc = "done"
         /\ op \in SampleTests \cup ProportionTests
         /\ (OutOfUnit(args.alpha) \/ OutOfUnit(args.confidence_level)) )
       => ret.kind = "error"

(***************************************************************************)
(* C8.  aggregate_conversion_rate returns total = the number of distinct   *)
(* users with an exposure event in the variant and successes = the number  *)
(* of those exposed users who also have a conversion event in the variant  *)
(* (a conversion without an exposure in the variant does not count), so    *)
(* 0 <= successes <= total and rate = successes / total; a variant with no *)
(* exposure event gives successes = 0, total = 0, rate = 0.0.              *)
(***************************************************************************)
HasEvent(rows, u, v, e) == \E i \in 1..Len(rows) : rows[i] = Row(u, v, e)

UsersOf(rows) == {rows[i].user_id : i \in 1..Len(rows)}

C8_ConversionCounts ==
    Done("aggregate_conversion_rate") =>
        LET rows      == args.events.rows
            v         == args.variant_name
            exposed   == {u \in UsersOf(rows) : HasEvent(rows, u, v, "exposure")}
            converted == {u \in exposed : HasEvent(rows, u, v, "conversion")}
        IN  /\ ret.kind = "value"
            /\ ret.total = Cardinality(exposed)
            /\ ret.successes = Cardinality(converted)
            /\ 0 <= ret.successes /\ ret.successes <= ret.total
            /\ ret.total > 0 => ret.rate = <<ret.successes, ret.total>>
            /\ exposed = {} => (ret.successes = 0 /\ ret.total = 0 /\ ret.rate = <<0, 1>>)

\* Two exposed users and a conversion, in the variant, of a user who was not
\* exposed in it.
C8_Witness ==
    /\ Done("aggregate_conversion_rate")
    /\ ret.total = 2
    /\ ret.successes = 0
    /\ \E i \in 1..Len(args.events.rows) :
           /\ args.events.rows[i].event_type = "conversion"
           /\ args.events.rows[i].variant_name = args.variant_name

(***************************************************************************)
(* C9.  detect_sample_ratio_mismatch sets is_srm_detected exactly when the *)
(* chi-square goodness-of-fit p-value of (control_n, treatment_n) against  *)
(* the expected counts is strictly below alpha: 55000/45000 at ratio 0.5   *)
(* and alpha 0.01 is flagged, counts matching the expected split exactly   *)
(* are never flagged, and the message contains "SRM DETECTED" if and only  *)
(* if the flag is set.                                                     *)
(***************************************************************************)
C9_SRMFlag ==
    (Done("detect_sample_ratio_mismatch") /\ args.control_n + args.treatment_n > 0) =>
        LET a     == args.expected_ratio[1]
            b     == args.expected_ratio[2]
            total == args.control_n + args.treatment_n
        IN  /\ ret.kind = "value"
            /\ ret.p_value = chisquare(args.control_n, args.treatment_n, a, b).p_value
            /\ ret.is_srm_detected <=> (ret.p_value < args.alpha)
            /\ (args.control_n = 55000 /\ args.treatment_n = 45000
                    /\ args.expected_ratio = <<1, 2>> /\ args.alpha = 100)
                   => ret.is_srm_detected
            /\ (args.control_n * b = total * a) => ~ret.is_srm_detected
            /\ ret.is_srm_detected <=> Contains(ret.message, "SRM DETECTED")

C9_Witness ==
    /\ Done("detect_sample_ratio_mismatch")
    /\ args.control_n = 55000 /\ args.treatment_n = 45000
    /\ args.expected_ratio = <<1, 2>> /\ args.alpha = 100
    /\ ret.is_srm_detected
    /\ Contains(ret.message, "SRM DETECTED: Expected 50.0%/50.0% split, observed 55.0%/45.0%.")

(***************************************************************************)
(* C10.  detect_sample_ratio_mismatch with control_n + treatment_n = 0     *)
(* returns, for any expected_ratio and alpha, is_srm_detected = False,     *)
(* p_value = 1.0, observed_ratio = 0.0 and the message                     *)
(* "No samples to analyze", without raising and without dividing by the    *)
(* zero total.                                                             *)
(***************************************************************************)
C10_NoSamples ==
    (Done("detect_sample_ratio_mismatch") /\ args.control_n + args.treatment_n = 0) =>
        /\ ret.kind = "value"
        /\ ret.is_srm_detected = FALSE
        /\ ret.p_value = One
        /\ ret.observed_ratio = <<0, 1>>
        /\ ret.message = "No samples to analyze"
        /\ ret.expected_ratio = args.expected_ratio
        /\ ret.control_n = 0 /\ ret.treatment_n = 0

C10_Witness ==
    /\ Done("detect_sample_ratio_mismatch")
    /\ args.control_n = 0 /\ args.treatment_n = 0
    /\ args.expected_ratio = <<3, 10>>
    /\ ret.message = "No samples to analyze"

(***************************************************************************)
(* C11.  The interpretation returned by cohens_d and cohens_h depends on   *)
(* the absolute value of the effect only: |v| < 0.2 is "negligible",       *)
(* 0.2 <= |v| < 0.5 "small", 0.5 <= |v| < 0.8 "medium", |v| >= 0.8         *)
(* "large"; an effect and its negation (the two groups exchanged) receive  *)
(* the same interpretation.                                                *)
(***************************************************************************)
\* the bucket of an absolute value m, which reaches a threshold c (in
\* 1/10000) exactly when AtLeast(m, c)
BucketOf(m, AtLeast(_, _)) ==
    IF ~AtLeast(m, 2000) THEN "negligible"
    ELSE IF ~AtLeast(m, 5000) THEN "small"
    ELSE IF ~AtLeast(m, 8000) THEN "medium"
    ELSE "large"

C11_InterpretationOfMagnitude ==
    /\ (Done("cohens_d") /\ ret.kind = "value") =>
           /\ ret.interpretation = BucketOf(Abs(ret.value.v), LAMBDA m, c : m >= c)
           /\ ret.interpretation =
                  cohens_d(args.treatment_data, args.control_data).interpretation
    /\ (Done("cohens_h") /\ ret.kind = "value") =>
           /\ ret.interpretation =
                  BucketOf(ret.value.sinsq, LAMBDA m, c : m >= SinSqHalf(c))
           /\ ret.interpretation =
                  cohens_h(args.treatment_rate, args.control_rate).interpretation

\* a negative d of medium size: control [0, 2, 2], treatment [0, 0, 2]
C11_Witness ==
    /\ Done("cohens_d")
    /\ args.control_data = <<0, 2, 2>> /\ args.treatment_data = <<0, 0, 2>>
    /\ ret.kind = "value"
    /\ ret.value.v < 0
    /\ ret.interpretation = "medium"

(***************************************************************************)
(* C12.  number_needed_to_treat returns the value                          *)
(* 1 / |treatment_rate - control_rate| and buckets it: NNT <= 10 is        *)
(* "very strong effect", <= 50 "strong effect", <= 100 "moderate effect",  *)
(* anything above "weak effect"; with equal rates it returns +infinity     *)
(* and "no effect" instead of dividing by zero; exchanging the two rates   *)
(* gives the same result.                                                  *)
(***************************************************************************)
\* value <= k for a returned finite value
ValueAtMost(value, k) ==
    \/ value.num < k * value.den
    \/ value.num = k * value.den /\ ~value.above

C12_NNTBuckets ==
    Done("number_needed_to_treat") =>
        /\ ret.kind = "value"
        /\ ret.metric_name = "NNT"
        /\ ret = number_needed_to_treat(args.treatment_rate, args.control_rate)
        /\ IF args.control_rate = args.treatment_rate
           THEN ret.value = Infinity /\ ret.interpretation = "no effect"
           ELSE /\ ~ret.value.inf
                /\ ret.value.num * Abs(args.treatment_rate - args.control_rate)
                       = One * ret.value.den
                /\ ret.interpretation =
                       IF ValueAtMost(ret.value, 10) THEN "very strong effect"
                       ELSE IF ValueAtMost(ret.value, 50) THEN "strong effect"
                       ELSE IF ValueAtMost(ret.value, 100) THEN "moderate effect"
                       ELSE "weak effect"

\* equal rates: +infinity and "no effect"
C12_Witness ==
    /\ Done("number_needed_to_treat")
    /\ args.control_rate = 500 /\ args.treatment_rate = 500
    /\ ret = EffectSizeResult(Infinity, "no effect", "NNT")

(***************************************************************************)
(* C13.  The ratio computations raise on a zero or negative denominator    *)
(* instead of dividing: relative_lift when control_value == 0, risk_ratio  *)
(* when control_rate <= 0, odds_ratio when a rate is not strictly inside   *)
(* (0, 1), relative_difference_confidence_interval when a total is not     *)
(* positive or the control rate is <= 0; no result value is returned.      *)
(***************************************************************************)
\* the fraction r lies strictly inside (0, 1)
StrictlyInside(r) == 0 < r[1] /\ r[1] < r[2]

\* the call ended in a ValueError
RaisedValueError == ret.kind = "error" /\ ret.error = "ValueError"

C13_RatioDenominators ==
    /\ (Done("relative_lift") /\ args.control_value[1] = 0) => RaisedValueError
    /\ (Done("risk_ratio") /\ args.control_rate[1] <= 0) => RaisedValueError
    /\ (Done("odds_ratio")
           /\ ~(StrictlyInside(args.control_rate) /\ StrictlyInside(args.treatment_rate)))
          => RaisedValueError
    /\ (Done("relative_difference_confidence_interval")
           /\ (args.control_total <= 0 \/ args.treatment_total <= 0
                  \/ args.control_successes <= 0))
          => RaisedValueError

\* relative_lift of a zero control value
C13_Witness ==
    /\ Done("relative_lift")
    /\ args.control_value = <<0, 2>> /\ args.treatment_value = <<1, 2>>
    /\ ret = Raise("control_value cannot be zero")

(***************************************************************************)
(* C14.  In every returned test result practical_significance is true      *)
(* exactly when the standardized effect reaches 0.2 in absolute value:     *)
(* Cohen's d for two_sample_ttest, mann_whitney_u and bootstrap_test,      *)
(* Cohen's h for two_proportion_ztest and chi_square_test; it is false     *)
(* exactly when the interpretation of that effect size is "negligible".    *)
(***************************************************************************)
\* Cohen's d of the samples of the call
CallCohensD == cohens_d(args.control_data, args.treatment_data)

\* Cohen's h of the rates of the call
CallCohensH == cohens_h(<<args.control_successes, args.control_n>>,
                        <<args.treatment_successes, args.treatment_n>>)

C14_PracticalSignificance ==
    /\ (pc = "done" /\ op \in SampleTests /\ ret.kind = "value") =>
           /\ ret.practical_significance = (Abs(CallCohensD.value.v) >= 2000)
           /\ ret.practical_significance = (CallCohensD.interpretation /= "negligible")
    /\ (pc = "done" /\ op \in ProportionTests /\ ret.kind = "value") =>
           /\ ret.practical_significance = (CallCohensH.value.sinsq >= SinSqHalf(2000))
           /\ ret.practical_significance = (CallCohensH.interpretation /= "negligible")

\* a small effect (d = 0.31) is practically significant
C14_Witness ==
    /\ Done("mann_whitney_u")
    /\ args.control_data = <<0, 1, 2>> /\ args.treatment_data = <<0, 2, 2>>
    /\ ret.kind = "value"
    /\ CallCohensD.interpretation = "small"
    /\ ret.practical_significance

(***************************************************************************)
(* C15.  mann_whitney_u reports the group medians in control_mean and      *)
(* treatment_mean, while effect_size, relative_effect and                  *)
(* practical_significance come from the group means:                       *)
(* effect_size = mean(treatment) - mean(control).                          *)
(***************************************************************************)
\* two fractions with positive denominators are the same number
SameNumber(a, b) == a[1] * b[2] = b[1] * a[2]

\* the mean of a sample as a fraction
MeanOf(data) == <<Sum(data), Len(data)>>

C15_MediansReportedMeansUsed ==
    (Done("mann_whitney_u") /\ ret.kind = "value") =>
        LET mc == MeanOf(args.control_data)
            mt == MeanOf(args.treatment_data)
        IN  /\ SameNumber(ret.control_mean, Median(args.control_data))
            /\ SameNumber(ret.treatment_mean, Median(args.treatment_data))
            /\ SameNumber(ret.effect_size, <<mt[1] * mc[2] - mc[1] * mt[2], mc[2] * mt[2]>>)
            /\ ret.relative_effect.some = (mc[1] /= 0)
            /\ ret.relative_effect.some =>
                   SameNumber(ret.relative_effect.value,
                              <<100 * (mt[1] * mc[2] - mc[1] * mt[2]), mc[1] * mt[2]>>)
            /\ ret.practical_significance = (CallCohensD.interpretation /= "negligible")

\* control [0, 0, 2] (median 0, mean 2/3), treatment [0, 2, 2] (median 2,
\* mean 4/3): the effect size is 2/3, not 2
C15_Witness ==
    /\ Done("mann_whitney_u")
    /\ args.control_data = <<0, 0, 2>> /\ args.treatment_data = <<0, 2, 2>>
    /\ ret.kind = "value"
    /\ SameNumber(ret.control_mean, <<0, 1>>) /\ SameNumber(ret.treatment_mean, <<2, 1>>)
    /\ SameNumber(ret.effect_size, <<2, 3>>)
    /\ SameNumber(ret.relative_effect.value, <<100, 1>>)

(***************************************************************************)
(* C16.  bootstrap_test is reproducible and isolated: two calls with the   *)
(* same data, n_bootstrap, statistic and the same non-null random_state    *)
(* return identical results, whatever other calls of bootstrap_test run    *)
(* before or interleaved with them; each call draws only from the          *)
(* generator it created.                                                   *)
(***************************************************************************)
\* caller i has returned
Returned(i) == threads[i].pc = "done"

C16_Reproducible ==
    \A i, j \in DOMAIN threads :
        ( /\ Returned(i) /\ Returned(j)
          /\ threads[i].args = threads[j].args
          /\ threads[i].args.random_state.some )
        => threads[i].ret = threads[j].ret

\* two callers seeded with 42 agree, while an unseeded one, interleaved with
\* them, obtained another result
C16_Witness ==
    /\ \A i \in 1..3 : Returned(i) /\ threads[i].ret.kind = "value"
    /\ threads[1].args.random_state = None
    /\ threads[2].args.random_state = Some(42)
    /\ threads[3].args.random_state = Some(42)
    /\ threads[2].ret = threads[3].ret
    /\ threads[1].ret /= threads[2].ret

(***************************************************************************)
(* C17.  Every interval returned by mean_confidence_interval,              *)
(* proportion_confidence_interval,                                         *)
(* difference_confidence_interval_proportions,                             *)
(* difference_confidence_interval_means and                                *)
(* relative_difference_confidence_interval satisfies                       *)
(* lower <= point_estimate <= upper for all valid inputs.                  *)
(***************************************************************************)
\* positive totals, and successes between 0 and the total
ValidTotals(a) ==
    /\ a.control_total > 0 /\ a.treatment_total > 0
    /\ 0 <= a.control_successes /\ a.control_successes <= a.control_total
    /\ 0 <= a.treatment_successes /\ a.treatment_successes <= a.treatment_total

\* the arguments of the finished interval call are valid: a confidence
\* strictly inside (0, 1), at least 2 observations per sample, positive
\* totals and successes between 0 and the total
ValidIntervalCall ==
    /\ pc = "done"
    /\ op \in IntervalFunctions
    /\ 0 < args.confidence /\ args.confidence < One
    /\ op = "mean_confidence_interval" => Len(args.data) >= 2
    /\ op = "proportion_confidence_interval" =>
           args.total > 0 /\ 0 <= args.successes /\ args.successes <= args.total
    /\ op = "difference_confidence_interval_means" =>
           Len(args.control_data) >= 2 /\ Len(args.treatment_data) >= 2
    /\ op \in {"difference_confidence_interval_proportions",
                "relative_difference_confidence_interval"} => ValidTotals(args)
    /\ op = "relative_difference_confidence_interval" => args.control_successes > 0

\* lower <= point for a float bound (kept rounded down to 1/10000) and a
\* point estimate kept as a fraction: false only when the bound is nan or
\* certainly above the point
NotAbove(lower, point) ==
    \/ lower.kind = "-inf"
    \/ lower.kind = "num" /\ lower.v * point[2] <= One * point[1]

\* point <= upper: false only when the bound is nan or certainly below the
\* point
NotBelow(upper, point) ==
    \/ upper.kind = "inf"
    \/ upper.kind = "num" /\ (upper.v + 1) * point[2] > One * point[1]

\* The claim as stated: it fails.
C17_PointInsideInterval ==
    ValidIntervalCall =>
        /\ ret.kind = "value"
        /\ NotAbove(ret.lower, ret.point_estimate)
        /\ NotBelow(ret.upper, ret.point_estimate)

(***************************************************************************)
(* C18.  proportion_confidence_interval validates its arguments before     *)
(* computing: it raises when confidence is not in (0, 1), when total <= 0, *)
(* and when successes < 0 or successes > total; for every accepted input   *)
(* (successes = 0 and successes = total included) it returns               *)
(* point_estimate = successes / total.                                     *)
(***************************************************************************)
C18_ProportionIntervalValidates ==
    Done("proportion_confidence_interval") =>
        IF \/ ~(0 < args.confidence /\ args.confidence < One)
           \/ args.total <= 0
           \/ args.successes < 0 \/ args.successes > args.total
        THEN RaisedValueError
        ELSE /\ ret.kind = "value"
             /\ SameNumber(ret.point_estimate, <<args.successes, args.total>>)
             /\ ret.confidence_level = args.confidence

\* all successes: the point estimate is 1
C18_Witness ==
    /\ Done("proportion_confidence_interval")
    /\ args.successes = 3 /\ args.total = 3 /\ args.confidence = 9500
    /\ ret.kind = "value"
    /\ ret.point_estimate = <<3, 3>>

(***************************************************************************)
(* C19.  estimate_duration returns                                         *)
(* ceil(sample_size_per_variant * num_variants /                           *)
(*      (daily_traffic * traffic_allocation)),                             *)
(* an integer >= 1 for accepted inputs and the smallest whole number of    *)
(* days whose effective traffic covers the total sample; it raises when    *)
(* sample_size_per_variant <= 0, daily_traffic <= 0, num_variants < 2 or   *)
(* traffic_allocation is not in (0, 1].                                    *)
(***************************************************************************)
\* days of the effective traffic cover the total sample of the call
Covers(days) ==
    days * args.daily_traffic * args.traffic_allocation
        >= args.sample_size_per_variant * args.num_variants * One

\* The claim as stated: it fails, the float quotient can lie above a whole
\* number of days that covers the sample.
C19_DurationIsLeastCover ==
    Done("estimate_duration") =>
        IF \/ args.sample_size_per_variant <= 0 \/ args.daily_traffic <= 0
           \/ args.num_variants < 2
           \/ ~(0 < args.traffic_allocation /\ args.traffic_allocation <= One)
        THEN RaisedValueError
        ELSE /\ ret.kind = "value"
             /\ ret.value >= 1
             /\ Covers(ret.value)
             /\ ~Covers(ret.value - 1)

(***************************************************************************)
(* C20.  Sample-size/power round trip: for valid parameters,               *)
(* calculate_power at n = calculate_sample_size(baseline_rate, mde, power, *)
(* alpha), with the same baseline_rate, mde and alpha, returns at least    *)
(* the requested power (for baseline_rate = 0.05, mde = 0.01, power = 0.8, *)
(* alpha = 0.05 the value is >= 0.8).  The other arguments keep their      *)
(* defaults, ratio = 1 and alternative = "two-sided", and n is the integer *)
(* calculate_sample_size returns when the solver finds the root.           *)
(***************************************************************************)
\* calculate_sample_size was called with the default ratio and alternative
\* and returned an integer
ReturnedSampleSize ==
    /\ Done("calculate_sample_size")
    /\ args.ratio = 1
    /\ args.alternative = "two-sided"
    /\ ret.kind = "value"
    /\ ret.value \in Int

\* calculate_power at the returned n, with the call's other arguments
PowerAtReturned ==
    calculate_power(ret.value, args.baseline_rate, args.mde, args.alpha, 1, "two-sided")

Width(interval) == FSub(interval.upper, interval.lower)

\* the interval the finished call's function returns on the same data at
\* the confidence c
IntervalAt(c, rounding) ==
    CASE op = "mean_confidence_interval" -> mean_confidence_interval(args.data, c)
      [] op = "proportion_confidence_interval" ->
             proportion_confidence_interval(args.successes, args.total, c, rounding)
      [] op = "difference_confidence_interval_proportions" ->
             difference_confidence_interval_proportions(
                 args.control_successes, args.control_total,
                 args.treatment_successes, args.treatment_total, c)
      [] op = "difference_confidence_interval_means" ->
             difference_confidence_interval_means(args.control_data, args.treatment_data,
                                                  c, args.equal_var)
      [] op = "relative_difference_confidence_interval" ->
             relative_difference_confidence_interval(
                 args.control_successes, args.control_total,
                 args.treatment_successes, args.treatment_total, c)

\* a valid interval call at confidence 0.95 has returned
ReturnedAt95 == ValidIntervalCall /\ args.confidence = 9500 /\ ret.kind = "value"

C21_WiderAtHigherConfidence ==
    ReturnedAt95 =>
        \A rounding \in {-1, 0} :
            /\ IntervalAt(9900, rounding).kind = "value"
            /\ ~FLess(Width(IntervalAt(9900, rounding)), Width(ret))

\* a sample with scatter, whose interval is strictly wider at 0.99
C21_Witness ==
    /\ ReturnedAt95
    /\ op = "mean_confidence_interval"
    /\ args.data = <<1, 3>>
    /\ FLess(Num(0), Width(ret))
    /\ FLess(Width(ret), Width(IntervalAt(9900, 0)))

(***************************************************************************)
(* C23.  aggregate_continuous_metric produces exactly one value per        *)
(* distinct user of the variant who has at least one qualifying row        *)
(* (matching metric_event when given) with a non-missing metric value,     *)
(* that value being the user's mean/sum/max/min of those rows (mean by     *)
(* default), so count equals the number of such users; rows with missing   *)
(* metric values never contribute, and when no qualifying row exists it    *)
(* returns count = 0, an empty values array, mean = 0.0 and std = 0.0      *)
(* without raising.                                                        *)
(***************************************************************************)
\* the positions of the qualifying rows of the call: rows of the variant,
\* of the metric event when one is given, with a metric value
Qualifying ==
    {i \in 1..Len(args.events.rows) :
        LET r == args.events.rows[i]
        IN  /\ r.variant_name = args.variant_name
            /\ args.metric_event.some => r.event_type = args.metric_event.value
            /\ r.metric_value.some}

\* the users that have a qualifying row
QualifyingUsers == {args.events.rows[i].user_id : i \in Qualifying} \ {NullUser}

\* the qualifying rows of the user u
RowsOf(u) == {i \in Qualifying : args.events.rows[i].user_id = u}

MetricAt(i) == args.events.rows[i].metric_value.value

RECURSIVE Total(_)
Total(I) == IF I = {} THEN 0 ELSE LET i == CHOOSE i \in I : TRUE IN MetricAt(i) + Total(I \ {i})

\* value, a fraction, is the aggregate of the qualifying rows of u
IsAggregateOf(value, u) ==
    CASE args.aggregation = "mean" -> value[1] * Cardinality(RowsOf(u)) = Total(RowsOf(u)) * value[2]
      [] args.aggregation = "sum" -> value[1] = Total(RowsOf(u)) * value[2]
      [] args.aggregation = "max" ->
             \E i \in RowsOf(u) : /\ value[1] = MetricAt(i) * value[2]
                                   /\ \A j \in RowsOf(u) : MetricAt(j) <= MetricAt(i)
      [] args.aggregation = "min" ->
             \E i \in RowsOf(u) : /\ value[1] = MetricAt(i) * value[2]
                                   /\ \A j \in RowsOf(u) : MetricAt(j) >= MetricAt(i)

C23_OneValuePerUser ==
    (Done("aggregate_continuous_metric") /\ args.aggregation \in {"mean", "sum", "max", "min"}) =>
        /\ ret.kind = "value"
        /\ ret.count = Cardinality(QualifyingUsers)
        /\ Len(ret.values) = ret.count
        /\ \E order \in [1..ret.count -> QualifyingUsers] :
              /\ \A i, j \in 1..ret.count : i /= j => order[i] /= order[j]
              /\ \A i \in 1..ret.count : IsAggregateOf(ret.values[i], order[i])
        /\ Qualifying = {} =>
              ret.values = <<>> /\ ret.mean = Num(0) /\ ret.std = Num(0)

\* a user with two qualifying rows, whose value is their mean, beside a
\* row without a metric value
C23_Witness ==
    /\ Done("aggregate_continuous_metric")
    /\ args.aggregation = "mean"
    /\ ret.count = 1
    /\ ret.values = << <<4, 2>> >>
    /\ \E u \in QualifyingUsers : Cardinality(RowsOf(u)) = 2
    /\ \E i \in 1..Len(args.events.rows) :
          /\ args.events.rows[i].variant_name = args.variant_name
          /\ ~args.events.rows[i].metric_value.some

(***************************************************************************)
(* C26.  On every return path of validate_experiment_data the flag and the *)
(* list agree: is_valid is True if and only if the returned issue list is  *)
(* empty.                                                                  *)
(***************************************************************************)
C26_FlagAgreesWithIssues ==
    (Done("validate_experiment_data") /\ ret.kind = "value") =>
        (ret.is_valid <=> ret.issues = <<>>)

\* a table that passes every check
C26_Witness ==
    /\ Done("validate_experiment_data")
    /\ ret.kind = "value"
    /\ ret.is_valid
    /\ ret.issues = <<>>
    /\ Len(args.events.rows) > 0

(***************************************************************************)
(* C22.  The engine is stateless and never mutates its input: after any    *)
(* sequence of calls to aggregate_conversion_rate,                         *)
(* aggregate_continuous_metric, get_variant_sample_sizes,                  *)
(* calculate_experiment_summary and validate_experiment_data, the caller's *)
(* event table is unchanged, and the result of each call depends only on   *)
(* that call's arguments, not on earlier calls.                            *)
(***************************************************************************)
\* the DataFrame is now what it was when each call of the session was
\* handed it
FrameUntouched == \A i \in 1..Len(log) : log[i].args.events = frame

\* two calls of the same function with the same arguments have the same
\* outcome, whatever was called between them
SameCallSameOutcome ==
    \A i, j \in 1..Len(log) :
        (log[i].op = log[j].op /\ log[i].args = log[j].args) => log[i].ret = log[j].ret

LastClear ==
    LET clears == {i \in 1..Len(log) : log[i].op = "clear_history"}
    IN  IF clears = {} THEN 0 ELSE CHOOSE i \in clears : \A j \in clears : j <= i

\* the last call of the session handed sent to the language model
JustSent == Len(log) > 0 /\ log[Len(log)].op \in {"invoke", "invoke_structured"}

C24_HistoryEmptyAfterClear ==
    /\ Len(log) = 0 => messages = <<>>
    /\ (Len(log) > 0 /\ log[Len(log)].op = "clear_history") => messages = <<>>
    /\ JustSent =>
          \A i \in 1..Len(sent) : sent[i].role /= "system" => sent[i].call > LastClear

\* an exchange, then clear_history, then an invoke that sends the system
\* prompt and its own input only
C24_Witness ==
    /\ Len(log) = 3
    /\ log[1].op = "invoke" /\ log[1].ret.kind = "value"
    /\ log[2].op = "clear_history" /\ Len(log[2].before) = 2
    /\ log[3].op = "invoke"
    /\ Len(sent) = 2
    /\ sent[2] = HumanMessage("follow-up", 3)

(***************************************************************************)
(* C27.  After any sequence of invoke, invoke_structured and clear_history *)
(* calls on an agent, the length of its conversation history equals        *)
(* 2 x (number of successful invoke calls) + 1 x (number of successful     *)
(* invoke_structured calls) since the last clear_history or construction;  *)
(* a call that fails raises LLMError and leaves the history exactly as it  *)
(* was before the call.                                                    *)
(***************************************************************************)
\* the calls of f since the last clear_history that returned
Successful(f) ==
    Cardinality({i \in (LastClear + 1)..Len(log) : log[i].op = f /\ log[i].ret.kind = "value"})

\* the history after the call i of the session
HistoryAfter(i) == IF i = Len(log) THEN messages ELSE log[i + 1].before

TestReturns ==
    \A nan_in_range \in BOOLEAN :
        PrimaryResult(args.events, args.metric_type, args.alpha, nan_in_range).kind = "value"

\* The claim as stated: it fails, the prompt formats a relative_effect of
\* None before the guarded call of the language model.
C28_InterpretationNeverFails ==
    Done("analyze_experiment") /\ TestReturns =>
        /\ ret.kind = "value"
        /\ ret.interpretation \in {"response", Fallback(ret.primary_metric_result)}

(***************************************************************************)
(* C29.  The /analyze route with a binary metric: each value supplied for  *)
(* a variant yields one exposed user of that variant, so control_n and     *)
(* treatment_n of the primary result are the lengths of the value lists    *)
(* and the success count of each group is the number of its positive       *)
(* values.                                                                 *)
(***************************************************************************)

\* the number of positive values of a list
Positive(values) == Cardinality({i \in 1..Len(values) : values[i] > 0})

\* what _analyze_binary_metric counts for a variant of the route's table
RouteMetric(variant_name) ==
    aggregate_conversion_rate(RouteFrame(args.control_values, args.treatment_values).rows,
                              variant_name)

\* The claim as stated: it fails, a positive value gets a conversion row
\* and no exposure row, so its user is not counted at all.
C29_OneExposedUserPerValue ==
    Done("analyze_route") /\ args.metric_type = "binary" =>
        /\ RouteMetric("control").total = Len(args.control_values)
        /\ RouteMetric("treatment").total = Len(args.treatment_values)
        /\ RouteMetric("control").successes = Positive(args.control_values)
        /\ RouteMetric("treatment").successes = Positive(args.treatment_values)
        /\ ret.kind = "value" =>
               /\ ret.analysis.primary_metric_result.control_n = Len(args.control_values)
               /\ ret.analysis.primary_metric_result.treatment_n = Len(args.treatment_values)

(***************************************************************************)
(* C25.  bootstrap_test runs two separate loops of exactly n_bootstrap     *)
(* iterations each, the permutation loop completing before the resampling  *)
(* loop starts: the p-value is the fraction of permutation iterations with *)
(* |null difference| >= |observed difference| (in [0, 1], a multiple of    *)
(* 1 / n_bootstrap) and depends on no draw of the resampling loop; the     *)
(* interval bounds are percentiles of the resampling differences only,     *)
(* with confidence_interval_lower <= confidence_interval_upper.            *)
(***************************************************************************)

\* the difference the k-th output of a caller's generator selects from S
DrawnFrom(S, t, k) == Nth(S, build.pcg64[<<t.rng.seed, k>>])

\* the iterations of the permutation loop that count for the p-value
Extreme(t) ==
    LET a == t.args
        observed_diff == FracSub(StatFunc(a.statistic, a.treatment_data),
                                 StatFunc(a.statistic, a.control_data))
    IN  {k \in 1..a.n_bootstrap :
            FracLeq(FracAbs(observed_diff),
                    FracAbs(DrawnFrom(NullDiffs(a.control_data, a.treatment_data, a.statistic),
                                      t, k)))}

\* the differences of the resampling loop, from the outputs after the first
\* n_bootstrap
Resampled(t) ==
    LET a == t.args
    IN  [k \in 1..a.n_bootstrap |->
            DrawnFrom(BootDiffs(a.control_data, a.treatment_data, a.statistic),
                      t, a.n_bootstrap + k)]

FixedDiffs(diffs) == [k \in 1..Len(diffs) |-> Fixed(diffs[k][1], diffs[k][2])]

LoopsInOrder(t) ==
    LET n == t.args.n_bootstrap
    IN  /\ t.pc = "permute" => Len(t.null_diffs) < n /\ t.boot_diffs = <<>>
        /\ t.pc = "resample" => Len(t.null_diffs) = n /\ Len(t.boot_diffs) < n
        /\ t.pc \in {"finish", "done"} => Len(t.null_diffs) = n /\ Len(t.boot_diffs) = n
        /\ t.pc /= "call" => t.rng.pos = Len(t.null_diffs) + Len(t.boot_diffs)

C25_TwoLoops ==
    \A i \in DOMAIN threads :
        LET t == threads[i]
            n == t.args.n_bootstrap
        IN  /\ LoopsInOrder(t)
            /\ t.pc = "done" /\ t.ret.kind = "value" =>
                  /\ t.ret.p_value = Num(Fixed(Cardinality(Extreme(t)), n))
                  /\ FLeq(Num(0), t.ret.p_value) /\ FLeq(t.ret.p_value, Num(One))
                  /\ t.boot_diffs = Resampled(t)
                  /\ t.ret.confidence_interval_lower
                        = Num(percentile(FixedDiffs(Resampled(t)), One - t.args.confidence_level))
                  /\ t.ret.confidence_interval_upper
                        = Num(percentile(FixedDiffs(Resampled(t)), One + t.args.confidence_level))
                  /\ FLeq(t.ret.confidence_interval_lower, t.ret.confidence_interval_upper)

\* a finished call of two iterations a loop, whose p-value is 1/2 and whose
\* interval is not a point
C25_Witness ==
    \E i \in DOMAIN threads :
        /\ threads[i].pc = "done"
        /\ threads[i].ret.kind = "value"
        /\ threads[i].args.n_bootstrap = 2
        /\ threads[i].ret.p_value = Num(One \div 2)
        /\ threads[i].ret.confidence_interval_lower /= threads[i].ret.confidence_interval_upper

(***************************************************************************)
(* C30.  None of the five hypothesis tests propagates relative_lift's      *)
(* zero-control error: when the control rate (tests on proportions) or the *)
(* control mean (tests on samples) is exactly 0 and the input is otherwise *)
(* valid, the test still returns a result whose relative_effect is None,   *)
(* and whenever the control rate or mean is not 0 relative_effect equals   *)
(* (treatment - control) / control * 100.                                  *)
(***************************************************************************)

\* alpha and confidence_level strictly between 0 and 1
ValidLevels(a) ==
    /\ 0 < a.alpha /\ a.alpha < One
    /\ 0 < a.confidence_level /\ a.confidence_level < One

\* the input of a finished test is valid
ValidTestInput ==
    /\ ValidLevels(args)
    /\ op \in ProportionTests => ValidCounts(args)
    /\ op \in SampleTests => Len(args.control_data) >= 2 /\ Len(args.treatment_data) >= 2

\* the control and treatment rates or means of a finished test
ControlValue ==
    IF op \in ProportionTests THEN <<args.control_successes, args.control_n>>
    ELSE Mean(args.control_data)

TreatmentValue ==
    IF op \in ProportionTests THEN <<args.treatment_successes, args.treatment_n>>
    ELSE Mean(args.treatment_data)

\* the fraction f is (treatment - control) / control * 100
IsLiftOf(f, control, treatment) ==
    f[1] * control[1] * treatment[2]
        = 100 * (treatment[1] * control[2] - control[1] * treatment[2]) * f[2]

\* The claim as stated: it fails, chi_square_test raises on a table without
\* a success.
C30_ZeroControlGivesNone ==
    pc = "done" /\ op \in ProportionTests \cup SampleTests /\ ValidTestInput =>
        IF ControlValue[1] = 0
        THEN ret.kind = "value" /\ ret.relative_effect = None
        ELSE ret.kind = "value" =>
                /\ ret.relative_effect.some
                /\ IsLiftOf(ret.relative_effect.value, ControlValue, TreatmentValue)

====
